---------------------------- MODULE Spec2Model ----------------------------
(***************************************************************************)
(* Reference-code hierarchy inference of the GRC platform scripts:         *)
(* natural sort key, parent-inference rules, ancestor chains, group        *)
(* synthesis, parent assignment, is_group derivation and the depth-first   *)
(* display-order sequencer, over the external_controls table.              *)
(*                                                                         *)
(* A ref_code is a sequence of one-character strings.  A row id is a       *)
(* positive integer (the table's ids are UUIDs: opaque, never NULL, always *)
(* truthy); None stands for SQL NULL / Python None.                        *)
(***************************************************************************)
EXTENDS Integers, Sequences, FiniteSets, TLC

None == 0

\* display_order IS NULL (0 is a display_order the sequencer hands out).
NullOrder == -1

\* A parent rule's "no parent" result (Python None).  No rule can return the
\* empty string, so the empty sequence is free to stand for it.
NoRef == <<>>

(***************************************************************************)
(* Characters                                                              *)
(***************************************************************************)
Digits == {"0", "1", "2", "3", "4", "5", "6", "7", "8", "9"}
Lowers == {"a", "b", "c", "d", "i", "v", "x"}
Uppers == {"A", "B", "C", "D", "E", "F", "G", "I", "M", "N", "O", "P", "R",
           "S", "T", "V"}
Romans == {"i", "v", "x"}

\* Code point of a character (str comparison in Python is by code point).
Ord(c) ==
  CASE c = "&" -> 38 [] c = "(" -> 40 [] c = ")" -> 41 [] c = "-" -> 45
    [] c = "." -> 46
    [] c = "0" -> 48 [] c = "1" -> 49 [] c = "2" -> 50 [] c = "3" -> 51
    [] c = "4" -> 52 [] c = "5" -> 53 [] c = "6" -> 54 [] c = "7" -> 55
    [] c = "8" -> 56 [] c = "9" -> 57
    [] c = "A" -> 65 [] c = "B" -> 66 [] c = "C" -> 67 [] c = "F" -> 70
    [] c = "G" -> 71 [] c = "M" -> 77 [] c = "O" -> 79 [] c = "P" -> 80
    [] c = "R" -> 82 [] c = "V" -> 86
    [] c = "a" -> 97 [] c = "b" -> 98 [] c = "c" -> 99 [] c = "d" -> 100
    [] c = "i" -> 105 [] c = "v" -> 118 [] c = "x" -> 120
    [] c = "D" -> 68 [] c = "E" -> 69 [] c = "I" -> 73 [] c = "N" -> 78
    [] c = "S" -> 83 [] c = "T" -> 84

\* str.lower() on one character.
LowerChar(c) ==
  CASE c = "A" -> "a" [] c = "B" -> "b" [] c = "C" -> "c" [] c = "G" -> "g"
    [] c = "M" -> "m" [] c = "R" -> "r" [] c = "V" -> "v"
    [] c = "F" -> "f" [] c = "O" -> "o" [] c = "P" -> "p"
    [] c = "D" -> "d" [] c = "E" -> "e" [] c = "I" -> "i" [] c = "N" -> "n"
    [] c = "S" -> "s" [] c = "T" -> "t"
    [] OTHER -> c

\* Code point after lower(): "e", "f", "g", "m", "n", "o", "p", "r", "s", "t"
\* only arise as images of lower().
OrdL(c) ==
  CASE c = "g" -> 103 [] c = "m" -> 109 [] c = "r" -> 114
    [] c = "f" -> 102 [] c = "o" -> 111 [] c = "p" -> 112
    [] c = "e" -> 101 [] c = "n" -> 110 [] c = "s" -> 115 [] c = "t" -> 116
    [] OTHER -> Ord(c)

IsDigit(c) == c \in Digits
IsLower(c) == c \in Lowers
IsUpper(c) == c \in Uppers
IsRoman(c) == c \in Romans

DigitVal(c) == Ord(c) - 48

\* s is a non-empty run of digits (str.isdigit(), regex \d+ over the whole s).
IsDigits(s) == Len(s) > 0 /\ \A i \in 1..Len(s) : IsDigit(s[i])

\* int(part) for a run of decimal digits.
RECURSIVE IntOf(_)
IntOf(s) ==
  IF Len(s) = 0 THEN 0
  ELSE 10 * IntOf(SubSeq(s, 1, Len(s) - 1)) + DigitVal(s[Len(s)])

\* part.lower()
Lower(s) == [i \in 1..Len(s) |-> LowerChar(s[i])]

\* a < b for Python strings (already lowercased where the code lowercases).
RECURSIVE StrLess(_, _)
StrLess(a, b) ==
  IF Len(b) = 0 THEN FALSE
  ELSE IF Len(a) = 0 THEN TRUE
  ELSE IF OrdL(a[1]) # OrdL(b[1]) THEN OrdL(a[1]) < OrdL(b[1])
  ELSE StrLess(Tail(a), Tail(b))

(***************************************************************************)
(* Natural sort key                                                        *)
(***************************************************************************)
\* Length of the longest prefix of s made of digits (want = TRUE) or of
\* non-digits (want = FALSE).
RECURSIVE RunLen(_, _)
RunLen(s, want) ==
  IF Len(s) = 0 \/ IsDigit(s[1]) # want THEN 0
  ELSE 1 + RunLen(Tail(s), want)

\* re.split(r'(\d+)', ref_code): text, digits, text, ..., text; the text
\* parts at both ends may be empty.
RECURSIVE re_split_digits(_)
re_split_digits(s) ==
  LET p == RunLen(s, FALSE) IN
  IF p = Len(s) THEN <<s>>
  ELSE LET rest == SubSeq(s, p + 1, Len(s))
           d    == RunLen(rest, TRUE)
       IN  <<SubSeq(s, 1, p), SubSeq(rest, 1, d)>>
             \o re_split_digits(SubSeq(rest, d + 1, Len(rest)))

\* The key's fixed length: `while len(result) < 10`.
KeyPadLen == 10

\* The padding entry appended by the while loop: (2, 0, '').
PadEntry == <<2, 0, <<>>>>

\* Mutation of KeyParts: a digit run kept as text, compared as a string.
RECURSIVE KeyParts_digits_as_text(_)
KeyParts_digits_as_text(parts) ==
  IF Len(parts) = 0 THEN <<>>
  ELSE (IF Len(Head(parts)) > 0 THEN << <<1, 0, Lower(Head(parts))>> >>
        ELSE <<>>)
       \o KeyParts_digits_as_text(Tail(parts))

\* The loop over parts: (0, int(part), '') for a digit run,
\* (1, 0, part.lower()) for other non-empty text.
RECURSIVE KeyParts(_)
KeyParts(parts) ==
  IF Len(parts) = 0 THEN <<>>
  ELSE LET part == Head(parts) IN
       (IF IsDigits(part) THEN << <<0, IntOf(part), <<>>>> >>
        ELSE IF Len(part) > 0 THEN << <<1, 0, Lower(part)>> >>
        ELSE <<>>)
       \o KeyParts(Tail(parts))

RECURSIVE PadKey(_)
PadKey(result) ==
  IF Len(result) < KeyPadLen THEN PadKey(Append(result, PadEntry)) ELSE result

natural_sort_key(ref_code) == PadKey(KeyParts(re_split_digits(ref_code)))

\* Python's < on the key's 3-tuples.
EntryLess(x, y) ==
  \/ x[1] < y[1]
  \/ x[1] = y[1] /\ x[2] < y[2]
  \/ x[1] = y[1] /\ x[2] = y[2] /\ StrLess(x[3], y[3])

\* Python's < on tuples of 3-tuples: lexicographic, a proper prefix is less.
RECURSIVE KeyLess(_, _)
KeyLess(k1, k2) ==
  IF Len(k2) = 0 THEN FALSE
  ELSE IF Len(k1) = 0 THEN TRUE
  ELSE IF Head(k1) # Head(k2) THEN EntryLess(Head(k1), Head(k2))
  ELSE KeyLess(Tail(k1), Tail(k2))

(***************************************************************************)
(* Regular-expression shapes used by the parent-inference rules            *)
(***************************************************************************)
\* Position of the last occurrence of character c in s, 0 when absent.
RECURSIVE LastPos(_, _)
LastPos(s, c) ==
  IF Len(s) = 0 THEN 0
  ELSE IF s[Len(s)] = c THEN Len(s)
  ELSE LastPos(SubSeq(s, 1, Len(s) - 1), c)

\* Number of segments of s when s matches \d+(?:\.\d+)*, else 0.
RECURSIVE NumSegs(_)
NumSegs(s) ==
  LET j == LastPos(s, ".") IN
  IF j = 0 THEN (IF IsDigits(s) THEN 1 ELSE 0)
  ELSE LET head == NumSegs(SubSeq(s, 1, j - 1)) IN
       IF head > 0 /\ IsDigits(SubSeq(s, j + 1, Len(s))) THEN head + 1 ELSE 0

\* The text before the last "." of s.
BeforeLastDot(s) == SubSeq(s, 1, LastPos(s, ".") - 1)

\* The text inside a trailing parenthesised group of s, when s ends in
\* "(" body ")" with no parenthesis inside body; <<>> otherwise.
ParenBody(s) ==
  LET j == LastPos(s, "(") IN
  IF Len(s) > 0 /\ s[Len(s)] = ")" /\ j > 0
     /\ \A i \in (j + 1)..(Len(s) - 1) : s[i] # ")"
  THEN SubSeq(s, j + 1, Len(s) - 1) ELSE <<>>

\* The text before the trailing parenthesised group of s.
BeforeParen(s) == SubSeq(s, 1, LastPos(s, "(") - 1)

\* ^(.+)\(\d+\)$
MatchAnyNumParen(s) == IsDigits(ParenBody(s)) /\ Len(BeforeParen(s)) > 0

\* ^(.+)\([A-Z]\)$
MatchAnyUpperParen(s) ==
  Len(ParenBody(s)) = 1 /\ IsUpper(ParenBody(s)[1]) /\ Len(BeforeParen(s)) > 0

\* ^(.+)\([ivx]+\)$
MatchAnyRomanParen(s) ==
  /\ Len(ParenBody(s)) > 0
  /\ \A i \in 1..Len(ParenBody(s)) : IsRoman(ParenBody(s)[i])
  /\ Len(BeforeParen(s)) > 0

\* ^(.+)\([a-z]\)$
MatchAnyLowerParen(s) ==
  Len(ParenBody(s)) = 1 /\ IsLower(ParenBody(s)[1]) /\ Len(BeforeParen(s)) > 0

\* ^(\d+\.\d+)\([a-z]\)$
MatchSectionLowerParen(s) ==
  Len(ParenBody(s)) = 1 /\ IsLower(ParenBody(s)[1]) /\ NumSegs(BeforeParen(s)) = 2

\* ^(.+\([a-z]\))\(\d+\)$
MatchLowerParenNumParen(s) ==
  IsDigits(ParenBody(s)) /\ MatchAnyLowerParen(BeforeParen(s))

(***************************************************************************)
(* Parent-inference rules                                                  *)
(***************************************************************************)
\* fix_iso_complete.py
get_immediate_parent_iso(ref_code) ==
  IF MatchAnyNumParen(ref_code) THEN BeforeParen(ref_code)
  ELSE IF MatchAnyLowerParen(ref_code) THEN BeforeParen(ref_code)
  ELSE IF NumSegs(ref_code) >= 3 THEN BeforeLastDot(ref_code)
  ELSE IF NumSegs(ref_code) = 2 THEN BeforeLastDot(ref_code)
  ELSE IF /\ Len(ref_code) >= 3
          /\ ref_code[1] = "A"
          /\ NumSegs(SubSeq(ref_code, 3, Len(ref_code))) >= 1
          /\ ref_code[2] = "."
       THEN BeforeLastDot(ref_code)
  ELSE NoRef

\* fix_hipaa_parent_hierarchy.py
get_immediate_parent_hipaa(ref_code) ==
  IF MatchAnyNumParen(ref_code) THEN BeforeParen(ref_code)
  ELSE IF MatchAnyUpperParen(ref_code) THEN BeforeParen(ref_code)
  ELSE IF MatchAnyRomanParen(ref_code) THEN BeforeParen(ref_code)
  ELSE IF MatchSectionLowerParen(ref_code) THEN BeforeParen(ref_code)
  ELSE NoRef

\* Mutation of get_parent_ref_hipaa: the "(letter)(digit)" branch is tried
\* first and captures the text before the letter group.
get_parent_ref_hipaa_letter_digit_first(ref_code) ==
  IF MatchLowerParenNumParen(ref_code)
  THEN BeforeParen(BeforeParen(ref_code))
  ELSE IF MatchAnyNumParen(ref_code) THEN BeforeParen(ref_code)
  ELSE IF MatchAnyUpperParen(ref_code) THEN BeforeParen(ref_code)
  ELSE IF MatchAnyRomanParen(ref_code) THEN BeforeParen(ref_code)
  ELSE IF MatchSectionLowerParen(ref_code) THEN BeforeParen(ref_code)
  ELSE NoRef

\* fix_all_framework_parent_hierarchy.py
get_parent_ref_hipaa(ref_code) ==
  IF MatchAnyNumParen(ref_code) THEN BeforeParen(ref_code)
  ELSE IF MatchAnyUpperParen(ref_code) THEN BeforeParen(ref_code)
  ELSE IF MatchAnyRomanParen(ref_code) THEN BeforeParen(ref_code)
  ELSE IF MatchLowerParenNumParen(ref_code) THEN BeforeParen(ref_code)
  ELSE IF MatchSectionLowerParen(ref_code) THEN BeforeParen(ref_code)
  ELSE NoRef

\* ^[A-Z]{2}-\d+$ : the base form XX-N of a NIST 800-53 control.
MatchFamilyDashNum(s) ==
  /\ Len(s) >= 4
  /\ IsUpper(s[1]) /\ IsUpper(s[2]) /\ s[3] = "-"
  /\ IsDigits(SubSeq(s, 4, Len(s)))

\* Mutation of get_parent_ref_nist_800_53: ^(.+)\(\d+\)$, any prefix.
get_parent_ref_nist_800_53_any_prefix(ref_code) ==
  IF MatchAnyNumParen(ref_code) THEN BeforeParen(ref_code) ELSE NoRef

\* ^([A-Z]{2}-\d+)\(\d+\)$
get_parent_ref_nist_800_53(ref_code) ==
  IF IsDigits(ParenBody(ref_code)) /\ MatchFamilyDashNum(BeforeParen(ref_code))
  THEN BeforeParen(ref_code)
  ELSE NoRef

\* ^[A-Z]{2}$ and ^[A-Z]{2}\.[A-Z]{2}$
MatchFunction(s) == Len(s) = 2 /\ IsUpper(s[1]) /\ IsUpper(s[2])

MatchFunctionCategory(s) ==
  /\ Len(s) = 5
  /\ MatchFunction(SubSeq(s, 1, 2)) /\ s[3] = "."
  /\ MatchFunction(SubSeq(s, 4, 5))

\* The text before the last "-" of s.
BeforeLastDash(s) == SubSeq(s, 1, LastPos(s, "-") - 1)

\* ^([A-Z]{2}\.[A-Z]{2})-\d+$
MatchCategoryDashNum(s) ==
  /\ LastPos(s, "-") > 0
  /\ MatchFunctionCategory(BeforeLastDash(s))
  /\ IsDigits(SubSeq(s, LastPos(s, "-") + 1, Len(s)))

\* Mutation of get_parent_ref_nist_csf_v1: the function-level pattern lost.
get_parent_ref_nist_csf_v1_no_function(ref_code) ==
  IF MatchCategoryDashNum(ref_code) THEN BeforeLastDash(ref_code) ELSE NoRef

get_parent_ref_nist_csf_v1(ref_code) ==
  IF MatchCategoryDashNum(ref_code) THEN BeforeLastDash(ref_code)
  ELSE IF MatchFunctionCategory(ref_code) THEN SubSeq(ref_code, 1, 2)
  ELSE NoRef

get_parent_ref_cis_csc(ref_code) ==
  IF NumSegs(ref_code) = 2 THEN BeforeLastDot(ref_code) ELSE NoRef

get_parent_ref_pci_dss(ref_code) ==
  IF NumSegs(ref_code) = 3 THEN BeforeLastDot(ref_code) ELSE NoRef

\* s matches a fixed-length pattern, one class per character: "d" for \d,
\* "l" for [a-z], "U" for [A-Z], any other entry for that literal character.
MatchShape(s, shape) ==
  /\ Len(s) = Len(shape)
  /\ \A i \in 1..Len(s) :
       CASE shape[i] = "d" -> IsDigit(s[i])
         [] shape[i] = "l" -> IsLower(s[i])
         [] shape[i] = "U" -> IsUpper(s[i])
         [] OTHER -> s[i] = shape[i]

\* ^(\d{2}\.\d{2}\.\d{2}\.[a-z])\.\d{2}$ and ^(\d{2}\.\d{2}\.\d{2})\.[a-z]$
get_parent_ref_nist_800_171_rev3(ref_code) ==
  IF MatchShape(ref_code, <<"d", "d", ".", "d", "d", ".", "d", "d", ".", "l",
                            ".", "d", "d">>)
  THEN SubSeq(ref_code, 1, 10)
  ELSE IF MatchShape(ref_code, <<"d", "d", ".", "d", "d", ".", "d", "d", ".",
                                 "l">>)
  THEN SubSeq(ref_code, 1, 8)
  ELSE NoRef

\* ^(\d+\.\d+)\.\d+$
get_parent_ref_nist_800_171_rev2(ref_code) ==
  IF NumSegs(ref_code) = 3 THEN BeforeLastDot(ref_code) ELSE NoRef

\* ^(\d+\.\d+)\([a-z]\)$
get_parent_ref_gdpr(ref_code) ==
  IF MatchSectionLowerParen(ref_code) THEN BeforeParen(ref_code) ELSE NoRef

\* Mutation of match.group(1): the point-of-focus number is returned instead
\* of the criterion.
get_parent_ref_soc2_pof_number(ref_code) ==
  LET j    == LastPos(ref_code, "-")
      head == SubSeq(ref_code, 1, j - 1)
      tail == SubSeq(ref_code, j + 1, Len(ref_code))
  IN  IF /\ j > 1
         /\ IsUpper(head[1])
         /\ NumSegs(Tail(head)) = 2
         /\ Len(tail) > 3
         /\ SubSeq(tail, 1, 3) = <<"P", "O", "F">>
         /\ IsDigits(SubSeq(tail, 4, Len(tail)))
      THEN SubSeq(tail, 4, Len(tail)) ELSE NoRef

\* ^([A-Z]\d+\.\d+)-POF\d+$
get_parent_ref_soc2(ref_code) ==
  LET j    == LastPos(ref_code, "-")
      head == SubSeq(ref_code, 1, j - 1)
      tail == SubSeq(ref_code, j + 1, Len(ref_code))
  IN  IF /\ j > 1
         /\ IsUpper(head[1])
         /\ NumSegs(Tail(head)) = 2
         /\ Len(tail) > 3
         /\ SubSeq(tail, 1, 3) = <<"P", "O", "F">>
         /\ IsDigits(SubSeq(tail, 4, Len(tail)))
      THEN head ELSE NoRef

\* get_parent_ref_nist_pf returns get_parent_ref_nist_csf_v1(ref_code).
get_parent_ref_nist_pf(ref_code) == get_parent_ref_nist_csf_v1(ref_code)

\* ^([A-Z]{3}\d{2})\.\d{2}$
get_parent_ref_cobit(ref_code) ==
  IF MatchShape(ref_code, <<"U", "U", "U", "d", "d", ".", "d", "d">>)
  THEN SubSeq(ref_code, 1, 5) ELSE NoRef

\* ^([A-Z&]+)-\d{2}$
get_parent_ref_csa_ccm(ref_code) ==
  LET n == Len(ref_code) IN
  IF /\ n >= 4
     /\ MatchShape(SubSeq(ref_code, n - 2, n), <<"-", "d", "d">>)
     /\ \A i \in 1..(n - 3) : IsUpper(ref_code[i]) \/ ref_code[i] = "&"
  THEN SubSeq(ref_code, 1, n - 3) ELSE NoRef

\* ^(\d+\.\d+)\([a-z]\)$, then ^(.+)\(\d+\)$
get_parent_ref_nydfs(ref_code) ==
  IF MatchSectionLowerParen(ref_code) THEN BeforeParen(ref_code)
  ELSE IF MatchAnyNumParen(ref_code) THEN BeforeParen(ref_code)
  ELSE NoRef

\* ^(\d+\.\d+)\([a-z]\)$, then ^(.+)\(\d+\)$
get_parent_ref_ccpa(ref_code) ==
  IF MatchSectionLowerParen(ref_code) THEN BeforeParen(ref_code)
  ELSE IF MatchAnyNumParen(ref_code) THEN BeforeParen(ref_code)
  ELSE NoRef

\* fix_iso_parent_hierarchy.py
get_parent_ref(ref_code) ==
  IF /\ IsDigits(ParenBody(ref_code))
     /\ LET b == BeforeParen(ref_code) IN
          \/ NumSegs(b) \in {2, 3}
          \/ /\ Len(ParenBody(b)) = 1 /\ IsLower(ParenBody(b)[1])
             /\ NumSegs(BeforeParen(b)) \in {2, 3}
  THEN BeforeParen(ref_code)
  ELSE IF /\ Len(ParenBody(ref_code)) = 1 /\ IsLower(ParenBody(ref_code)[1])
          /\ NumSegs(BeforeParen(ref_code)) \in {2, 3}
       THEN BeforeParen(ref_code)
  ELSE IF NumSegs(ref_code) = 3 THEN BeforeLastDot(ref_code)
  ELSE IF NumSegs(ref_code) = 2 THEN NoRef
  ELSE NoRef

(***************************************************************************)
(* Ancestor chain resolver                                                 *)
(***************************************************************************)
\* get_all_parent_refs: `while True` with no iteration cap; the loop ends
\* when the rule returns None.  Every rule modelled here returns a proper
\* prefix, so the recursion is well-founded on the length of the code.
RECURSIVE get_all_parent_refs_iso(_)
get_all_parent_refs_iso(ref_code) ==
  LET parent == get_immediate_parent_iso(ref_code) IN
  IF parent = NoRef THEN <<>>
  ELSE <<parent>> \o get_all_parent_refs_iso(parent)

\* Mutation of get_all_parent_refs (HIPAA): the loop left after one round.
get_all_parent_refs_hipaa_once(ref_code) ==
  LET parent == get_immediate_parent_hipaa(ref_code) IN
  IF parent = NoRef THEN <<>> ELSE <<parent>>

RECURSIVE get_all_parent_refs_hipaa(_)
get_all_parent_refs_hipaa(ref_code) ==
  LET parent == get_immediate_parent_hipaa(ref_code) IN
  IF parent = NoRef THEN <<>>
  ELSE <<parent>> \o get_all_parent_refs_hipaa(parent)

(***************************************************************************)
(* The external_controls table                                             *)
(***************************************************************************)
VARIABLES
  nodes,          \* id -> row [fw, ref, parent, is_group, level, order,
                  \*            source (parent_id_source)]
  code,           \* frameworks.code of framework "F"
  hist,           \* the scripts run so far, in order
  prev,           \* the table as it was before the last script ran
  created,        \* ids of the rows the last script inserted
  parent_updates, \* (parent_id, id) pairs the last script passed to UPDATE
  order_updates,  \* (display_order, id) list the last script passed to UPDATE
  probe,          \* inputs of a natural_sort_key comparison, or <<>>
  keys            \* the two keys computed for probe, or <<>>

vars == <<nodes, code, hist, prev, created, parent_updates, order_updates,
          probe, keys>>

\* The table is the sequence of its rows, a row's id being its position;
\* Rows1(f) is the function f on 1..n written out as that sequence.
Rows1(f) == SubSeq(f, 1, Len(f))

\* Ids of the rows of framework fw: SELECT ... WHERE framework_id = fw.
Rows(ns, fw) == {i \in DOMAIN ns : ns[i].fw = fw}

\* An unordered SELECT may return the rows in any order.
RECURSIVE LoadOrders(_)
LoadOrders(S) ==
  IF S = {} THEN {<<>>}
  ELSE UNION {{<<x>> \o p : p \in LoadOrders(S \ {x})} : x \in S}

(***************************************************************************)
(* Display-order sequencer                                                 *)
(***************************************************************************)
\* list.sort(key=natural_sort_key): the key of each element is computed
\* once; the sort is stable, so rows with equal keys stay in the order in
\* which they were appended (the load order).  Elements are <<key, id>>.
RECURSIVE InsertByKey(_, _)
InsertByKey(sorted, x) ==
  IF sorted = <<>> THEN <<x>>
  ELSE IF KeyLess(x[1], Head(sorted)[1]) THEN <<x>> \o sorted
  ELSE <<Head(sorted)>> \o InsertByKey(Tail(sorted), x)

RECURSIVE SortKeyed(_)
SortKeyed(list) ==
  IF list = <<>> THEN <<>>
  ELSE InsertByKey(SortKeyed(SubSeq(list, 1, Len(list) - 1)), list[Len(list)])

\* Mutation of SortByKey: the list left in load order.
SortByKey_unsorted(ns, list) == list

SortByKey(ns, list) ==
  LET keyed  == Rows1([k \in 1..Len(list) |->
                         <<natural_sort_key(ns[list[k]].ref), list[k]>>])
      sorted == SortKeyed(keyed)
  IN  Rows1([k \in 1..Len(sorted) |-> sorted[k][2]])

\* roots: the loaded rows with a falsy parent_id, sorted.
SeqRoots(ns, controls) ==
  LET IsRoot(i) == ns[i].parent = None
  IN  SortByKey(ns, SelectSeq(controls, IsRoot))

\* children_map[p]: the loaded rows whose parent_id is p, sorted.
SeqChildren(ns, controls, p) ==
  LET IsChild(i) == ns[i].parent = p
  IN  SortByKey(ns, SelectSeq(controls, IsChild))

\* traverse(control): the ids in the order in which they are appended to
\* the update list.  A row is reached only through its parent, so the
\* recursion follows a tree and ends.
RECURSIVE traverse(_, _, _)
RECURSIVE traverse_each(_, _, _)
\* Mutation of traverse: the row appended after its subtree.
traverse_post_order(ns, controls, id) ==
  traverse_each(ns, controls, SeqChildren(ns, controls, id)) \o <<id>>

traverse(ns, controls, id) ==
  <<id>> \o traverse_each(ns, controls, SeqChildren(ns, controls, id))

traverse_each(ns, controls, list) ==
  IF list = <<>> THEN <<>>
  ELSE traverse(ns, controls, Head(list))
         \o traverse_each(ns, controls, Tail(list))

\* Mutation of SequencerUpdates: the counter incremented before it is used.
SequencerUpdates_from_one(ns, controls) ==
  LET visit == traverse_each(ns, controls, SeqRoots(ns, controls))
  IN  Rows1([k \in 1..Len(visit) |-> <<k, visit[k]>>])

\* The (order_counter, id) list built by the traversal from every root.
SequencerUpdates(ns, controls) ==
  LET visit == traverse_each(ns, controls, SeqRoots(ns, controls))
  IN  Rows1([k \in 1..Len(visit) |-> <<k - 1, visit[k]>>])

\* fix_all_framework_display_order.py: enumerate(sorted(controls,
\* key=natural_sort_key)), the (i, id) list of the flat numbering.
FlatUpdates(ns, controls) ==
  LET sorted == SortByKey(ns, controls)
  IN  Rows1([k \in 1..Len(sorted) |-> <<k - 1, sorted[k]>>])

\* executemany("UPDATE ... SET display_order = %s WHERE id = %s", updates)
ApplyOrderUpdates(ns, updates) ==
  Rows1([i \in DOMAIN ns |->
     IF \E k \in 1..Len(updates) : updates[k][2] = i
     THEN [ns[i] EXCEPT !.order =
             updates[CHOOSE k \in 1..Len(updates) : updates[k][2] = i][1]]
     ELSE ns[i]])

(***************************************************************************)
(* Steps shared by the hierarchy scripts                                   *)
(***************************************************************************)
\* Mutation of RefId: the map built before the groups were inserted (nodes is
\* the table the run started from; later ids are this run's groups).
RefId_pre_synthesis(ns, fw, ref) ==
  LET S == {i \in Rows(ns, fw) : ns[i].ref = ref /\ i <= Len(nodes)}
  IN  IF S = {} THEN None ELSE CHOOSE i \in S : TRUE

\* Mutation of RefId: the map built from the rows of every framework.
RefId_any_framework(ns, fw, ref) ==
  LET S == {i \in DOMAIN ns : ns[i].ref = ref}
  IN  IF S = {} THEN None ELSE CHOOSE i \in S : TRUE

\* control_map.get(ref): the id of framework fw's row with this ref_code.
\* (framework_id, ref_code) is unique: it is the ON CONFLICT target.
RefId(ns, fw, ref) ==
  LET S == {i \in Rows(ns, fw) : ns[i].ref = ref}
  IN  IF S = {} THEN None ELSE CHOOSE i \in S : TRUE

\* set(control_map.keys())
RefSet(ns, fw) == {ns[i].ref : i \in Rows(ns, fw)}

\* The elements of a sequence, and the union of a set of sequences' elements.
Range(q) == {q[k] : k \in 1..Len(q)}

\* hierarchy_level given to a group fix_iso_complete creates.
IsoGroupLevel(ref) ==
  IF IsDigits(ref) THEN "clause"
  ELSE IF ref = <<"A">> THEN "annex"
  ELSE IF \/ NumSegs(ref) = 2
          \/ /\ Len(ref) >= 3 /\ ref[1] = "A" /\ ref[2] = "."
             /\ IsDigits(SubSeq(ref, 3, Len(ref)))
       THEN "section"
  ELSE "subsection"

\* hierarchy_level of a created group, per script.
GroupLevel(script, ref) ==
  CASE script = "iso_complete" -> IsoGroupLevel(ref)
    [] script = "hipaa"        -> "section"
    [] script = "fix_all"      -> "domain"

\* INSERT ... VALUES (fw, ref, description, true, level)
\* ON CONFLICT (framework_id, ref_code) DO NOTHING, for each ref in turn.
\* The new row takes a fresh id; parent_id and display_order are not given.
RECURSIVE InsertGroups(_, _, _, _)
InsertGroups(ns, fw, refs, script) ==
  IF refs = <<>> THEN ns
  ELSE LET ref == Head(refs)
           row == [fw |-> fw, ref |-> ref, parent |-> None,
                   is_group |-> "true", level |-> GroupLevel(script, ref),
                   order |-> NullOrder, source |-> "NULL"]
       IN  InsertGroups(IF RefId(ns, fw, ref) = None THEN Append(ns, row)
                        ELSE ns,
                        fw, Tail(refs), script)

\* sorted(missing, key=natural_sort_key) / sorted(missing): a stable sort of
\* the set's iteration order, given as the sequence `list`.
RECURSIVE InsertRef(_, _, _)
InsertRef(sorted, x, byKey) ==
  IF sorted = <<>> THEN <<x>>
  ELSE IF (IF byKey
           THEN KeyLess(natural_sort_key(x), natural_sort_key(Head(sorted)))
           ELSE StrLess(x, Head(sorted)))
       THEN <<x>> \o sorted
  ELSE <<Head(sorted)>> \o InsertRef(Tail(sorted), x, byKey)

RECURSIVE SortRefs(_, _)
SortRefs(list, byKey) ==
  IF list = <<>> THEN <<>>
  ELSE InsertRef(SortRefs(SubSeq(list, 1, Len(list) - 1), byKey),
                 list[Len(list)], byKey)

\* executemany("UPDATE ... SET parent_id = %s WHERE id = %s", updates)
ApplyParentUpdates(ns, updates) ==
  Rows1([i \in DOMAIN ns |->
     IF \E u \in updates : u[2] = i
     THEN [ns[i] EXCEPT !.parent = (CHOOSE u \in updates : u[2] = i)[1]]
     ELSE ns[i]])

\* Mutation of ParentIdsIn: the subquery without its framework_id filter.
ParentIdsIn_all_frameworks(ns, fw) ==
  {ns[i].parent : i \in {j \in DOMAIN ns : ns[j].parent # None}}

\* SELECT DISTINCT parent_id ... WHERE parent_id IS NOT NULL
\* AND framework_id = fw
ParentIdsIn(ns, fw) ==
  {ns[i].parent : i \in {j \in Rows(ns, fw) : ns[j].parent # None}}

\* SELECT DISTINCT parent_id ... WHERE parent_id IS NOT NULL (all frameworks)
ParentIdsAll(ns) ==
  {ns[i].parent : i \in {j \in DOMAIN ns : ns[j].parent # None}}

(***************************************************************************)
(* fix_iso_complete.py process_framework                                   *)
(***************************************************************************)
\* Mutation of the missing-groups computation: only the immediate parent of
\* each control is collected, not its whole chain.
IsoMissingParents_immediate_only(ns, fw) ==
  ({get_immediate_parent_iso(ns[i].ref) : i \in Rows(ns, fw)} \ {NoRef})
    \ RefSet(ns, fw)

\* all_needed_parents - set(control_map.keys())
IsoMissingParents(ns, fw) ==
  UNION {Range(get_all_parent_refs_iso(ns[i].ref)) : i \in Rows(ns, fw)}
    \ RefSet(ns, fw)

\* The parent_updates list of the "Set parent relationships" loop.
IsoCompleteParentUpdates(ns, fw) ==
  {<<RefId(ns, fw, get_immediate_parent_iso(ns[i].ref)), i>> :
     i \in {j \in Rows(ns, fw) :
              LET parent_ref == get_immediate_parent_iso(ns[j].ref) IN
              /\ parent_ref # NoRef
              /\ RefId(ns, fw, parent_ref) # None
              /\ RefId(ns, fw, parent_ref) # ns[j].parent}}

\* The two UPDATEs of "Set hierarchy levels": rows of fw that are some fw
\* row's parent_id become groups, the other rows of fw become leaves.
IsoCompleteSetIsGroup(ns, fw) ==
  Rows1([i \in DOMAIN ns |->
     IF ns[i].fw # fw THEN ns[i]
     ELSE [ns[i] EXCEPT !.is_group =
             IF i \in ParentIdsIn(ns, fw) THEN "true" ELSE "false"]])

(***************************************************************************)
(* fix_hipaa_parent_hierarchy.py main                                      *)
(***************************************************************************)
\* all_parents_needed - set(control_map.keys())
HipaaParentsToCreate(ns, fw) ==
  UNION {Range(get_all_parent_refs_hipaa(ns[i].ref)) : i \in Rows(ns, fw)}
    \ RefSet(ns, fw)

\* The updates list of the "Set parent IDs" loop.
HipaaParentUpdates(ns, fw) ==
  {<<RefId(ns, fw, get_immediate_parent_hipaa(ns[i].ref)), i>> :
     i \in {j \in Rows(ns, fw) :
              LET parent_ref == get_immediate_parent_hipaa(ns[j].ref) IN
              /\ parent_ref # NoRef
              /\ RefId(ns, fw, parent_ref) # None
              /\ RefId(ns, fw, parent_ref) # ns[j].parent}}

\* The two UPDATEs of "Set hierarchy levels".
HipaaSetLevels(ns, fw) ==
  Rows1([i \in DOMAIN ns |->
     IF ns[i].fw # fw THEN ns[i]
     ELSE IF i \in ParentIdsIn(ns, fw)
          THEN [ns[i] EXCEPT !.is_group = "true", !.level = "section"]
     ELSE [ns[i] EXCEPT !.is_group = "false", !.level = "control"]])

(***************************************************************************)
(* fix_all_framework_parent_hierarchy.py                                   *)
(***************************************************************************)
\* FRAMEWORK_CONFIGS: the parent function of a framework code ("NIST-CSF-1.1"
\* stands for code NIST-CSF, version v1.1).
FixAllRule(fwcode, ref) ==
  CASE fwcode = "NIST-800-53" -> get_parent_ref_nist_800_53(ref)
    [] fwcode = "CIS-CSC" -> get_parent_ref_cis_csc(ref)
    [] fwcode = "PCI-DSS" -> get_parent_ref_pci_dss(ref)
    [] fwcode = "HIPAA"   -> get_parent_ref_hipaa(ref)
    [] fwcode = "NIST-CSF-1.1" -> get_parent_ref_nist_csf_v1(ref)
    [] fwcode = "NIST-800-171-rev2" -> get_parent_ref_nist_800_171_rev2(ref)
    [] fwcode = "NIST-PF" -> get_parent_ref_nist_pf(ref)
    [] fwcode = "COBIT"   -> get_parent_ref_cobit(ref)
    [] fwcode = "CSA-CCM" -> get_parent_ref_csa_ccm(ref)

\* FRAMEWORK_CONFIGS: needs_domain_groups.
FixAllNeedsGroups(fwcode) ==
  fwcode \in {"CIS-CSC", "NIST-CSF-1.1", "NIST-800-171-rev2", "NIST-PF",
              "COBIT", "CSA-CCM"}

FixAllCodes ==
  {"NIST-800-53", "CIS-CSC", "PCI-DSS", "HIPAA", "NIST-CSF-1.1",
   "NIST-800-171-rev2", "NIST-PF", "COBIT", "CSA-CCM"}

\* create_domain_groups: groups_to_create, already less the existing refs.
DomainGroupsToCreate(ns, fw, fwcode) ==
  (IF fwcode = "CIS-CSC"
   THEN {BeforeLastDot(ns[i].ref) :
           i \in {j \in Rows(ns, fw) : NumSegs(ns[j].ref) = 2}}
   ELSE IF fwcode \in {"NIST-CSF-1.1", "NIST-PF"}
   THEN {SubSeq(ns[i].ref, 1, 2) :
           i \in {j \in Rows(ns, fw) :
                    /\ Len(ns[j].ref) >= 5
                    /\ MatchFunctionCategory(SubSeq(ns[j].ref, 1, 5))}}
        \cup
        {BeforeLastDash(ns[i].ref) :
           i \in {j \in Rows(ns, fw) : MatchCategoryDashNum(ns[j].ref)}}
   ELSE IF fwcode = "NIST-800-171-rev2"
   THEN {BeforeLastDot(ns[i].ref) :
           i \in {j \in Rows(ns, fw) : NumSegs(ns[j].ref) = 3}}
   ELSE IF fwcode = "COBIT"
   THEN {SubSeq(ns[i].ref, 1, 5) :
           i \in {j \in Rows(ns, fw) :
                    MatchShape(ns[j].ref,
                               <<"U", "U", "U", "d", "d", ".", "d", "d">>)}}
   ELSE IF fwcode = "CSA-CCM"
   THEN {get_parent_ref_csa_ccm(ns[i].ref) :
           i \in {j \in Rows(ns, fw) :
                    get_parent_ref_csa_ccm(ns[j].ref) # NoRef}}
   ELSE {})
    \ RefSet(ns, fw)

\* The updates list of process_framework.
FixAllParentUpdates(ns, fw, fwcode) ==
  {<<RefId(ns, fw, FixAllRule(fwcode, ns[i].ref)), i>> :
     i \in {j \in Rows(ns, fw) :
              LET parent_ref == FixAllRule(fwcode, ns[j].ref) IN
              /\ parent_ref # NoRef
              /\ RefId(ns, fw, parent_ref) # None
              /\ RefId(ns, fw, parent_ref) # ns[j].parent}}

\* set_hierarchy_levels: the two UPDATEs, over every framework.
set_hierarchy_levels(ns) ==
  LET groups == Rows1([i \in DOMAIN ns |->
                   IF i \in ParentIdsAll(ns) /\ ns[i].is_group # "true"
                   THEN [ns[i] EXCEPT !.is_group = "true",
                           !.level = IF @ = "NULL" THEN "section" ELSE @]
                   ELSE ns[i]])
  IN  Rows1([i \in DOMAIN ns |->
         IF /\ i \notin ParentIdsAll(groups)
            /\ groups[i].is_group \in {"NULL", "false"}
            /\ groups[i].level = "NULL"
         THEN [groups[i] EXCEPT !.is_group = "false", !.level = "control"]
         ELSE groups[i]])

(***************************************************************************)
(* fix_iso_parent_hierarchy.py                                             *)
(***************************************************************************)
\* The updates list of process_framework.
IsoParentUpdates(ns, fw) ==
  {<<RefId(ns, fw, get_parent_ref(ns[i].ref)), i>> :
     i \in {j \in Rows(ns, fw) :
              LET parent_ref == get_parent_ref(ns[j].ref) IN
              /\ parent_ref # NoRef
              /\ RefId(ns, fw, parent_ref) # None
              /\ RefId(ns, fw, parent_ref) # ns[j].parent}}

\* set_hierarchy_levels: rows of the ISO frameworks only; the parent_id
\* subquery is over every framework.  isoFws: the ISO-% frameworks.
iso_set_hierarchy_levels(ns, isoFws) ==
  Rows1([i \in DOMAIN ns |->
     IF ns[i].fw \notin isoFws THEN ns[i]
     ELSE IF i \in ParentIdsAll(ns)
          THEN [ns[i] EXCEPT !.is_group = "true", !.level = "section"]
     ELSE [ns[i] EXCEPT !.is_group = "false", !.level = "control"]])

(***************************************************************************)
(* auto_map_external_control_parents.py (NIST-CSF 2.0)                     *)
(***************************************************************************)
\* ^[A-Z]{2}\.[A-Z]{2,}$
MatchCategoryLong(s) ==
  /\ Len(s) >= 5
  /\ MatchFunction(SubSeq(s, 1, 2)) /\ s[3] = "."
  /\ \A k \in 4..Len(s) : IsUpper(s[k])

\* ^[A-Z]{2}\.[A-Z]{2,}-\d+$
MatchControlLong(s) ==
  /\ LastPos(s, "-") > 0
  /\ MatchCategoryLong(BeforeLastDash(s))
  /\ IsDigits(SubSeq(s, LastPos(s, "-") + 1, Len(s)))

\* parent_id computed by the loop for row i.
AutoMapParent(ns, fw, i) ==
  IF MatchFunction(ns[i].ref) THEN None
  ELSE IF MatchCategoryLong(ns[i].ref)
       THEN RefId(ns, fw, SubSeq(ns[i].ref, 1, 2))
  ELSE IF MatchControlLong(ns[i].ref)
       THEN RefId(ns, fw, BeforeLastDash(ns[i].ref))
  ELSE ns[i].parent

\* source computed by the loop for row i.
AutoMapSource(ns, fw, i) ==
  IF MatchFunction(ns[i].ref) THEN "auto"
  ELSE IF MatchCategoryLong(ns[i].ref) \/ MatchControlLong(ns[i].ref)
       THEN (IF AutoMapParent(ns, fw, i) # None THEN "auto" ELSE "NULL")
  ELSE "NULL"

\* The updates list: (parent_id, source, id).
AutoMapUpdates(ns, fw) ==
  {<<AutoMapParent(ns, fw, i), AutoMapSource(ns, fw, i), i>> :
     i \in {j \in Rows(ns, fw) :
              \/ AutoMapParent(ns, fw, j) # ns[j].parent
              \/ AutoMapSource(ns, fw, j) # "NULL"}}

\* executemany("UPDATE ... SET parent_id = %s, parent_id_source = %s
\* WHERE id = %s", updates)
ApplyAutoMapUpdates(ns, updates) ==
  Rows1([i \in DOMAIN ns |->
     IF \E u \in updates : u[3] = i
     THEN LET u == CHOOSE w \in updates : w[3] = i
          IN  [ns[i] EXCEPT !.parent = u[1], !.source = u[2]]
     ELSE ns[i]])

(***************************************************************************)
(* Bounds and input universes                                              *)
(***************************************************************************)
\* Rows of framework "F" in an initial table of the ordering specification.
MaxSeqNodes == 3

\* Scripts run in one behaviour.
MaxRuns == 2

\* Largest integer value of a digit run in a key comparison.
MaxRunVal == 12

\* Leading zeros put before a digit run in a key comparison.
MaxZeros == 1

\* Rows of framework "F" in an initial table that a hierarchy script runs on.
MaxNodes == 2

\* Rows of "F" whose parent_id is already set in an initial table of the
\* engine specification.
MaxStale == 1

\* Framework codes: the ISO scripts select code LIKE 'ISO-%'.
IsoCodes == {"ISO-27001"}
EngineCodes == IsoCodes \cup {"HIPAA", "CIS-CSC", "NIST-800-53"}

\* Row 1 belongs to another framework, "G"; rows 2.. belong to "F".
ForeignRow ==
  [fw |-> "G", ref |-> <<"1">>, parent |-> None, is_group |-> "NULL",
   level |-> "NULL", order |-> NullOrder, source |-> "NULL"]

\* A row as the importers leave it: no parent, nothing derived yet.
FreshRow(ref) ==
  [fw |-> "F", ref |-> ref, parent |-> None, is_group |-> "NULL",
   level |-> "NULL", order |-> NullOrder, source |-> "NULL"]

\* Strictly increasing index lists: the subsets of a universe, each once.
IncreasingIdx(n, m) ==
  {f \in [1..n -> 1..m] : \A i \in 1..(n - 1) : f[i] < f[i + 1]}

\* The elements of a set of numbers, ascending.
RECURSIVE Ascending(_)
Ascending(S) ==
  IF S = {} THEN <<>>
  ELSE LET m == CHOOSE x \in S : \A y \in S : x <= y
       IN  <<m>> \o Ascending(S \ {m})

\* ref_codes of the ordering specification: 1.9 and 1.09 have equal keys.
SeqUniverse ==
  << <<"1">>, <<"1", ".", "2">>, <<"1", ".", "9">>,
     <<"1", ".", "1", "0">>, <<"1", ".", "0", "9">> >>

\* The rows 1, 1.1, 1.2, 1.10, 1.9, the last four under 1 (ids 2..6).
NaturalOrderRows ==
  LET refs == << <<"1">>, <<"1", ".", "1">>, <<"1", ".", "2">>,
                 <<"1", ".", "1", "0">>, <<"1", ".", "9">> >>
  IN  Rows1([i \in 1..6 |->
         IF i = 1 THEN ForeignRow
         ELSE [FreshRow(refs[i - 1]) EXCEPT
                 !.parent = IF i = 2 THEN None ELSE 2]])

\* Decimal digits of a natural number, and a run with leading zeros.
DigitChar(d) ==
  CASE d = 0 -> "0" [] d = 1 -> "1" [] d = 2 -> "2" [] d = 3 -> "3"
    [] d = 4 -> "4" [] d = 5 -> "5" [] d = 6 -> "6" [] d = 7 -> "7"
    [] d = 8 -> "8" [] d = 9 -> "9"

RECURSIVE Decimal(_)
Decimal(v) ==
  IF v < 10 THEN <<DigitChar(v)>>
  ELSE Decimal(v \div 10) \o <<DigitChar(v % 10)>>

DigitRun(zeros, v) == [i \in 1..zeros |-> "0"] \o Decimal(v)

\* Text around the digit run: no prefix ends and no suffix starts with a
\* digit, so the run is maximal.  The last prefix already has ten runs.
RunPrefixes ==
  { <<>>, <<"A", "C", "-">>, <<"1", ".">>,
    <<"1", ".", "1", ".", "1", ".", "1", ".", "1", ".">> }

RunSuffixes == { <<>>, <<"(", "1", ")">>, <<".", "a">> }

\* Codes and the separator/segment text appended to them.
ExtBases ==
  { <<"5">>, <<"5", ".", "1">>, <<"A", "C", "-", "1", "6">>, <<"G", "V">>,
    <<"1", "6", "4", ".", "3", "0", "6", "(", "b", ")">> }

ExtTails ==
  { <<".", "1">>, <<"(", "1", ")">>, <<"(", "a", ")">>, <<"-", "0", "1">>,
    <<".", "R", "M">>, <<".", "1", "(", "a", ")">> }

(***************************************************************************)
(* Ordering specification: natural_sort_key and the sequencer              *)
(***************************************************************************)
NoRun ==
  /\ hist = <<>>
  /\ prev = <<>>
  /\ created = {}
  /\ parent_updates = {}
  /\ order_updates = <<>>

\* Any non-empty selection of SeqUniverse, with arbitrary parent_id values:
\* NULL, a row of the framework (itself included) or the foreign row.  The
\* framework is any framework or, for the tables small enough for
\* fix_iso_complete, an ISO one.
InitSeq ==
  /\ \E n \in 1..MaxSeqNodes :
       \E idx \in IncreasingIdx(n, Len(SeqUniverse)) :
         \E par \in [2..(n + 1) -> {None} \cup 1..(n + 1)] :
           /\ nodes = Rows1([i \in 1..(n + 1) |->
                         IF i = 1 THEN ForeignRow
                         ELSE [FreshRow(SeqUniverse[idx[i - 1]]) EXCEPT
                                 !.parent = par[i]]])
           /\ code \in IF n <= MaxNodes THEN {"ANY"} \cup IsoCodes
                       ELSE {"ANY"}
  /\ probe = <<>>
  /\ keys = <<>>
  /\ NoRun

InitNaturalOrder ==
  /\ nodes = NaturalOrderRows
  /\ code = "ANY"
  /\ probe = <<>>
  /\ keys = <<>>
  /\ NoRun

\* Two codes that differ in one maximal digit run only.
InitRunProbe ==
  /\ \E x \in RunPrefixes, y \in RunSuffixes :
       \E va \in 0..MaxRunVal, vb \in 0..MaxRunVal :
         \E za \in 0..MaxZeros, zb \in 0..MaxZeros :
           probe = [kind |-> "run", va |-> va, vb |-> vb,
                    a |-> x \o DigitRun(za, va) \o y,
                    b |-> x \o DigitRun(zb, vb) \o y]
  /\ nodes = <<ForeignRow>>
  /\ code = "NONE"
  /\ keys = <<>>
  /\ NoRun

\* A code and one of its extensions.
InitExtProbe ==
  /\ \E s \in ExtBases, e \in ExtTails :
       probe = [kind |-> "ext", va |-> 0, vb |-> 0, a |-> s, b |-> s \o e]
  /\ nodes = <<ForeignRow>>
  /\ code = "NONE"
  /\ keys = <<>>
  /\ NoRun

InitOrder == InitSeq \/ InitNaturalOrder \/ InitRunProbe \/ InitExtProbe

\* natural_sort_key applied to the two probe codes.
KeyCompare ==
  /\ probe # <<>>
  /\ keys = <<>>
  /\ keys' = <<natural_sort_key(probe.a), natural_sort_key(probe.b)>>
  /\ UNCHANGED <<nodes, code, hist, prev, created, parent_updates,
                 order_updates, probe>>

\* fix_display_order_hierarchy.py process_framework on framework "F".
SeqHierarchy ==
  /\ code # "NONE"
  /\ Len(hist) < MaxRuns
  /\ \E controls \in LoadOrders(Rows(nodes, "F")) :
     \E updates \in {SequencerUpdates(nodes, controls)} :
       /\ nodes' = ApplyOrderUpdates(nodes, updates)
       /\ order_updates' = updates
  /\ hist' = Append(hist, "seq")
  /\ prev' = nodes
  /\ created' = {}
  /\ parent_updates' = {}
  /\ UNCHANGED <<code, probe, keys>>

\* fix_all_framework_display_order.py process_framework on framework "F":
\* the rows numbered in natural order, parent links ignored.
FlatDisplayOrder ==
  /\ code # "NONE"
  /\ Len(hist) < MaxRuns
  /\ Rows(nodes, "F") # {}
  /\ \E controls \in LoadOrders(Rows(nodes, "F")) :
     \E updates \in {FlatUpdates(nodes, controls)} :
       /\ nodes' = ApplyOrderUpdates(nodes, updates)
       /\ order_updates' = updates
  /\ hist' = Append(hist, "flat")
  /\ prev' = nodes
  /\ created' = {}
  /\ parent_updates' = {}
  /\ UNCHANGED <<code, probe, keys>>

(***************************************************************************)
(* Engine specification: the hierarchy scripts on one framework            *)
(***************************************************************************)
\* ref_codes an initial table is drawn from, per framework code.  5.1 and
\* 5.01 have equal sort keys.
IsoUniverse ==
  << <<"5">>, <<"5", ".", "1">>, <<"5", ".", "0", "1">>,
     <<"5", ".", "1", ".", "1">>, <<"5", ".", "1", "(", "a", ")">> >>

HipaaSection == <<"1", "6", "4", ".", "3", "0", "6">>

HipaaUniverse ==
  << HipaaSection,
     HipaaSection \o <<"(", "b", ")">>,
     HipaaSection \o <<"(", "b", ")", "(", "2", ")">>,
     HipaaSection \o <<"(", "b", ")", "(", "2", ")", "(", "i", ")">>,
     HipaaSection \o <<"(", "i", ")">> >>

CisUniverse ==
  << <<"5">>, <<"5", ".", "1">>, <<"5", ".", "2">>,
     <<"5", ".", "1", ".", "1">>, <<"6", ".", "1">> >>

\* AC-16, its enhancements, a doubly parenthesised code and an enhancement
\* of AC-1, which no initial table holds.
NistUniverse ==
  << <<"A", "C", "-", "1", "6">>,
     <<"A", "C", "-", "1", "6", "(", "1", ")">>,
     <<"A", "C", "-", "1", "6", "(", "2", ")">>,
     <<"A", "C", "-", "1", "6", "(", "1", ")", "(", "2", ")">>,
     <<"A", "C", "-", "1", "(", "1", ")">> >>

Universe(fwcode) ==
  CASE fwcode \in IsoCodes -> IsoUniverse
    [] fwcode = "NIST-800-53" -> NistUniverse
    [] fwcode = "HIPAA"    -> HipaaUniverse
    [] fwcode = "CIS-CSC"  -> CisUniverse

\* (is_group, hierarchy_level) of a row before any script of this module
\* has run: as imported, or classified by an earlier run.
Classified ==
  { <<"NULL", "NULL">>, <<"true", "NULL">>, <<"false", "NULL">>,
    <<"false", "control">> }

\* The table before any script of this module has run: rows of "F" drawn
\* from the framework's universe with any classification and at most
\* MaxStale parent_id values left by earlier imports or scripts (a row of
\* "F", itself included, or the foreign row); the foreign row carries the
\* ref_code of a possible parent and may point into "F".
InitTable ==
  /\ \E c \in EngineCodes :
       \E n \in 1..MaxNodes :
         \E idx \in IncreasingIdx(n, Len(Universe(c))) :
           \E par \in [2..(n + 1) -> {None} \cup 1..(n + 1)] :
             \E grp \in [2..(n + 1) -> Classified] :
               \E fpar \in {None, 2} :
                 /\ Cardinality({i \in 2..(n + 1) : par[i] # None})
                      <= MaxStale
                 /\ code = c
                 /\ nodes =
                      Rows1([i \in 1..(n + 1) |->
                         IF i = 1
                         THEN [ForeignRow EXCEPT !.ref = Universe(c)[1],
                                                 !.parent = fpar]
                         ELSE [FreshRow(Universe(c)[idx[i - 1]]) EXCEPT
                                 !.parent = par[i], !.is_group = grp[i][1],
                                 !.level = grp[i][2]]])
  /\ probe = <<>>
  /\ keys = <<>>
  /\ NoRun

\* A NIST 800-53 table with AC-16 and its two enhancements (ids 2..4), any
\* classification and at most MaxStale parent_id values already set.
InitEnhancement ==
  /\ \E par \in [2..4 -> {None} \cup 1..4] :
       \E grp \in [2..4 -> Classified] :
         /\ Cardinality({i \in 2..4 : par[i] # None}) <= MaxStale
         /\ nodes =
              Rows1([i \in 1..4 |->
                 IF i = 1 THEN [ForeignRow EXCEPT !.ref = NistUniverse[1]]
                 ELSE [FreshRow(NistUniverse[i - 1]) EXCEPT
                         !.parent = par[i], !.is_group = grp[i][1],
                         !.level = grp[i][2]]])
  /\ code = "NIST-800-53"
  /\ probe = <<>>
  /\ keys = <<>>
  /\ NoRun

InitEngine == InitTable \/ InitEnhancement

\* fix_iso_complete.py process_framework on framework "F": create the
\* missing groups, set the parents, derive is_group, set display_order.
\* (Each intermediate table is bound once, as the value of a one-element
\* set.)
IsoComplete ==
  /\ code \in IsoCodes
  /\ Len(hist) < MaxRuns
  /\ \E missing \in LoadOrders(IsoMissingParents(nodes, "F")) :
     \E n1 \in {InsertGroups(nodes, "F", SortRefs(missing, TRUE),
                             "iso_complete")} :
     \E pu \in {IsoCompleteParentUpdates(n1, "F")} :
     \E n3 \in {IsoCompleteSetIsGroup(ApplyParentUpdates(n1, pu), "F")} :
     \E controls \in LoadOrders(Rows(n3, "F")) :
     \E ou \in {SequencerUpdates(n3, controls)} :
       /\ nodes' = ApplyOrderUpdates(n3, ou)
       /\ created' = (Len(nodes) + 1)..Len(n1)
       /\ parent_updates' = pu
       /\ order_updates' = ou
  /\ hist' = Append(hist, "iso_complete")
  /\ prev' = nodes
  /\ UNCHANGED <<code, probe, keys>>

\* fix_hipaa_parent_hierarchy.py main.
HipaaMain ==
  /\ code = "HIPAA"
  /\ Len(hist) < MaxRuns
  /\ \E missing \in LoadOrders(HipaaParentsToCreate(nodes, "F")) :
     \E n1 \in {InsertGroups(nodes, "F", SortRefs(missing, FALSE),
                             "hipaa")} :
     \E pu \in {HipaaParentUpdates(n1, "F")} :
       /\ nodes' = HipaaSetLevels(ApplyParentUpdates(n1, pu), "F")
       /\ created' = (Len(nodes) + 1)..Len(n1)
       /\ parent_updates' = pu
  /\ order_updates' = <<>>
  /\ hist' = Append(hist, "hipaa")
  /\ prev' = nodes
  /\ UNCHANGED <<code, probe, keys>>

\* fix_all_framework_parent_hierarchy.py main: process_framework on "F"
\* (the foreign framework has no entry in FRAMEWORK_CONFIGS), then
\* set_hierarchy_levels.
FixAllMain ==
  /\ code \in FixAllCodes
  /\ Len(hist) < MaxRuns
  /\ \E groups \in LoadOrders(IF FixAllNeedsGroups(code)
                              THEN DomainGroupsToCreate(nodes, "F", code)
                              ELSE {}) :
     \E n1 \in {InsertGroups(nodes, "F", SortRefs(groups, FALSE),
                             "fix_all")} :
     \E pu \in {FixAllParentUpdates(n1, "F", code)} :
       /\ nodes' = set_hierarchy_levels(ApplyParentUpdates(n1, pu))
       /\ created' = (Len(nodes) + 1)..Len(n1)
       /\ parent_updates' = pu
  /\ order_updates' = <<>>
  /\ hist' = Append(hist, "fix_all")
  /\ prev' = nodes
  /\ UNCHANGED <<code, probe, keys>>

\* fix_iso_parent_hierarchy.py main: process_framework on "F", then
\* set_hierarchy_levels ("F" is the only ISO-% framework).
IsoParentMain ==
  /\ code \in IsoCodes
  /\ Len(hist) < MaxRuns
  /\ \E pu \in {IsoParentUpdates(nodes, "F")} :
       /\ nodes' = iso_set_hierarchy_levels(ApplyParentUpdates(nodes, pu),
                                            {"F"})
       /\ parent_updates' = pu
  /\ created' = {}
  /\ order_updates' = <<>>
  /\ hist' = Append(hist, "iso_parent")
  /\ prev' = nodes
  /\ UNCHANGED <<code, probe, keys>>

Next == IsoComplete \/ HipaaMain \/ FixAllMain \/ IsoParentMain

Spec == InitEngine /\ [][Next]_vars

(***************************************************************************)
(* CSF specification: the two parent mappers of NIST-CSF, then the         *)
(* sequencer                                                               *)
(***************************************************************************)
\* Rows of framework "F" in an initial table of the CSF specification.
MaxCsfNodes == 4

\* (code, version) of NIST-CSF: v1.1 is in FRAMEWORK_CONFIGS of
\* fix_all_framework_parent_hierarchy, 2.0 is auto_map's framework.
CsfCodes == {"NIST-CSF-1.1", "NIST-CSF-2.0"}

\* GV.RM-02, GV.RM, GV.RR-01, GV, GV.RM-01: ids do not follow the hierarchy.
CsfUniverse ==
  << <<"G", "V", ".", "R", "M", "-", "0", "2">>,
     <<"G", "V", ".", "R", "M">>,
     <<"G", "V", ".", "R", "R", "-", "0", "1">>,
     <<"G", "V">>,
     <<"G", "V", ".", "R", "M", "-", "0", "1">> >>

\* Any non-empty selection of CsfUniverse with at most MaxStale parent_id
\* values already set.
InitCsf ==
  /\ \E n \in 1..MaxCsfNodes :
       \E idx \in IncreasingIdx(n, Len(CsfUniverse)) :
         \E par \in [2..(n + 1) -> {None} \cup 1..(n + 1)] :
           /\ Cardinality({i \in 2..(n + 1) : par[i] # None}) <= MaxStale
           /\ nodes = Rows1([i \in 1..(n + 1) |->
                         IF i = 1 THEN [ForeignRow EXCEPT !.ref = <<"G", "V">>]
                         ELSE [FreshRow(CsfUniverse[idx[i - 1]]) EXCEPT
                                 !.parent = par[i]]])
  /\ code \in CsfCodes
  /\ probe = <<>>
  /\ keys = <<>>
  /\ NoRun

\* auto_map_external_control_parents.py: the whole script, on framework "F".
AutoMapMain ==
  /\ code = "NIST-CSF-2.0"
  /\ Len(hist) < MaxRuns
  /\ \E updates \in {AutoMapUpdates(nodes, "F")} :
       /\ nodes' = ApplyAutoMapUpdates(nodes, updates)
       /\ parent_updates' = {<<u[1], u[3]>> : u \in updates}
  /\ created' = {}
  /\ order_updates' = <<>>
  /\ hist' = Append(hist, "auto_map")
  /\ prev' = nodes
  /\ UNCHANGED <<code, probe, keys>>

NextCsf == AutoMapMain \/ FixAllMain \/ SeqHierarchy

SpecCsf == InitCsf /\ [][NextCsf]_vars

(***************************************************************************)
(* Groups specification: fix_all_framework_parent_hierarchy on the         *)
(* frameworks configured with needs_groups                                 *)
(***************************************************************************)
GroupCodes ==
  {"CIS-CSC", "NIST-CSF-1.1", "NIST-800-171-rev2", "NIST-PF", "COBIT",
   "CSA-CCM"}

\* ref_codes of the frameworks with needs_groups.  The Privacy Framework
\* writes its subcategories, categories and functions ID.IM-P1, ID.IM-P and
\* ID-P; ID.IM-1 and ID.IM are in the form of the CSF.
GroupUniverse(fwcode) ==
  CASE fwcode = "CIS-CSC" -> CisUniverse
    [] fwcode = "NIST-CSF-1.1" -> CsfUniverse
    [] fwcode = "NIST-800-171-rev2" ->
         << <<"3", ".", "1", ".", "1">>, <<"3", ".", "1", ".", "2">>,
            <<"3", ".", "1">>, <<"3", ".", "2", ".", "1">> >>
    [] fwcode = "NIST-PF" ->
         << <<"I", "D", ".", "I", "M", "-", "P", "1">>,
            <<"I", "D", ".", "I", "M", "-", "P">>,
            <<"I", "D", "-", "P">>,
            <<"I", "D", ".", "I", "M", "-", "1">>,
            <<"I", "D", ".", "I", "M">> >>
    [] fwcode = "COBIT" ->
         << <<"A", "P", "O", "0", "1", ".", "0", "1">>,
            <<"A", "P", "O", "0", "1", ".", "0", "2">>,
            <<"A", "P", "O", "0", "1">>,
            <<"A", "P", "O", "0", "2", ".", "0", "1">> >>
    [] fwcode = "CSA-CCM" ->
         << <<"A", "&", "A", "-", "0", "1">>, <<"A", "&", "A", "-", "0", "2">>,
            <<"A", "&", "A">> >>

\* Any non-empty selection of the framework's universe, as imported.
InitGroups ==
  /\ \E c \in GroupCodes :
       \E S \in SUBSET (1..Len(GroupUniverse(c))) \ {{}} :
         \E idx \in {Ascending(S)} :
           /\ code = c
           /\ nodes = <<ForeignRow>> \o
                 [i \in 1..Len(idx) |-> FreshRow(GroupUniverse(c)[idx[i]])]
  /\ probe = <<>>
  /\ keys = <<>>
  /\ NoRun

NextGroups == FixAllMain

SpecGroups == InitGroups /\ [][NextGroups]_vars

(***************************************************************************)
(* Failure specification: runs that a database error ends part-way         *)
(***************************************************************************)
\* The steps of a run, each ended by its own conn.commit().
IsoCompleteSteps == {"groups", "parents", "is_group", "display_order"}
FixAllSteps == {"groups", "parents", "levels"}

\* fix_iso_complete.py process_framework when a statement of step failed_at
\* raises (psycopg2 error: no try/except, the exception ends the script and
\* the open transaction is rolled back).  nodes is the persisted table: what
\* the commits before the failing step wrote.
IsoCompleteFails ==
  /\ code \in IsoCodes
  /\ Len(hist) < MaxRuns
  /\ \E failed_at \in IsoCompleteSteps :
     \E missing \in LoadOrders(IsoMissingParents(nodes, "F")) :
     \E n1 \in {InsertGroups(nodes, "F", SortRefs(missing, TRUE),
                             "iso_complete")} :
     \E pu \in {IsoCompleteParentUpdates(n1, "F")} :
     \E n2 \in {ApplyParentUpdates(n1, pu)} :
       /\ nodes' = CASE failed_at = "groups"        -> nodes
                     [] failed_at = "parents"       -> n1
                     [] failed_at = "is_group"      -> n2
                     [] failed_at = "display_order" ->
                          IsoCompleteSetIsGroup(n2, "F")
       /\ created' = IF failed_at = "groups" THEN {}
                     ELSE (Len(nodes) + 1)..Len(n1)
       /\ parent_updates' = IF failed_at \in {"groups", "parents"} THEN {}
                            ELSE pu
  /\ order_updates' = <<>>
  /\ hist' = Append(hist, "iso_complete_failed")
  /\ prev' = nodes
  /\ UNCHANGED <<code, probe, keys>>

\* fix_all_framework_parent_hierarchy.py main when a statement outside the
\* try/except of create_domain_groups raises: the commit of the groups, the
\* parent UPDATEs of process_framework or set_hierarchy_levels.
FixAllFails ==
  /\ code \in FixAllCodes
  /\ Len(hist) < MaxRuns
  /\ \E failed_at \in FixAllSteps :
     \E groups \in LoadOrders(IF FixAllNeedsGroups(code)
                              THEN DomainGroupsToCreate(nodes, "F", code)
                              ELSE {}) :
     \E n1 \in {InsertGroups(nodes, "F", SortRefs(groups, FALSE),
                             "fix_all")} :
     \E pu \in {FixAllParentUpdates(n1, "F", code)} :
       /\ nodes' = CASE failed_at = "groups"  -> nodes
                     [] failed_at = "parents" -> n1
                     [] failed_at = "levels"  -> ApplyParentUpdates(n1, pu)
       /\ created' = IF failed_at = "groups" THEN {}
                     ELSE (Len(nodes) + 1)..Len(n1)
       /\ parent_updates' = IF failed_at = "levels" THEN pu ELSE {}
  /\ order_updates' = <<>>
  /\ hist' = Append(hist, "fix_all_failed")
  /\ prev' = nodes
  /\ UNCHANGED <<code, probe, keys>>

NextAtomic == IsoComplete \/ IsoCompleteFails \/ FixAllMain \/ FixAllFails

SpecAtomic == InitEngine /\ [][NextAtomic]_vars

(***************************************************************************)
(* Rule specification: the HIPAA parent rules and the chain resolvers on   *)
(* one ref_code                                                            *)
(***************************************************************************)
\* Parenthesised groups appended to a section number, at most.
MaxGroups == 3

\* Length of the longest run of numeric groups appended to a base code.
MaxChain == 12

\* One group of each kind the HIPAA rules name: numeric, single uppercase,
\* lowercase roman, single lowercase.
GroupTokens ==
  { <<"(", "2", ")">>, <<"(", "B", ")">>, <<"(", "i", "i", ")">>,
    <<"(", "d", ")">> }

\* The sequences of exactly n groups.
RECURSIVE GroupSeqs(_)
GroupSeqs(n) ==
  IF n = 0 THEN {<<>>}
  ELSE {g \o t : g \in GroupSeqs(n - 1), t \in GroupTokens}

\* n numeric groups "(1)".
RECURSIVE NumGroups(_)
NumGroups(n) ==
  IF n = 0 THEN <<>> ELSE <<"(", "1", ")">> \o NumGroups(n - 1)

\* 164.306(d)(3)(ii)(B)(2)
HipaaDeepCode ==
  HipaaSection \o <<"(", "d", ")", "(", "3", ")", "(", "i", "i", ")",
                    "(", "B", ")", "(", "2", ")">>

\* Dot-separated numeric segments of a code, at most.
MaxSegs == 4

SegTokens == { <<"1">>, <<"2">>, <<"4">>, <<"1", "0">> }

\* The codes of exactly n dot-separated segments.
RECURSIVE DottedCodes(_)
DottedCodes(n) ==
  IF n = 1 THEN SegTokens
  ELSE {c \o <<".">> \o t : c \in DottedCodes(n - 1), t \in SegTokens}

DottedInputs == UNION {DottedCodes(n) : n \in 1..MaxSegs}

\* Codes of the other framework families, as in the docstrings of the rules
\* of fix_all_framework_parent_hierarchy.py, with their parents.
FamilyInputs ==
  Range(NistUniverse) \cup Range(CsfUniverse) \cup Range(IsoUniverse)
    \cup { <<"0", "3", ".", "0", "1", ".", "0", "1", ".", "c", ".", "0", "1">>,
           <<"0", "3", ".", "0", "1", ".", "0", "1", ".", "c">>,
           <<"0", "3", ".", "0", "1", ".", "0", "1">>,
           <<"1", "2", ".", "5", "(", "b", ")">>,
           <<"A", "1", ".", "1", "-", "P", "O", "F", "1">>,
           <<"A", "1", ".", "1">>,
           <<"A", "P", "O", "0", "1", ".", "0", "1">>,
           <<"A", "P", "O", "0", "1">>,
           <<"A", "&", "A", "-", "0", "1">>,
           <<"A", "&", "A">>,
           <<"5", "0", "0", ".", "0", "2", "(", "a", ")", "(", "1", ")">>,
           <<"A", ".", "1", "0", ".", "1">>,
           <<"A">> }

\* ref_codes handed to the rules: a section number with up to MaxGroups
\* groups of any kind, the five-level code of the scripts' comments, a
\* section or ISO code followed by up to MaxChain numeric groups, the dotted
\* codes and the codes of the other families.
RuleInputs ==
  UNION {{HipaaSection \o g : g \in GroupSeqs(n)} : n \in 0..MaxGroups}
    \cup {HipaaDeepCode}
    \cup {HipaaSection \o <<"(", "d", ")">> \o NumGroups(n) :
            n \in 0..MaxChain}
    \cup {<<"5", ".", "1">> \o NumGroups(n) : n \in 0..MaxChain}
    \cup DottedInputs
    \cup FamilyInputs

\* code says whose functions are applied: fix_hipaa_parent_hierarchy's and
\* fix_all's HIPAA rule, or fix_iso_complete's.
InitRules ==
  /\ \E r \in RuleInputs :
       probe = [kind |-> "rule", va |-> 0, vb |-> 0, a |-> r, b |-> <<>>]
  /\ code \in {"HIPAA", "ISO-27001"}
  /\ nodes = <<ForeignRow>>
  /\ keys = <<>>
  /\ NoRun

\* get_all_parent_refs(probe.a) of fix_hipaa_parent_hierarchy.py or of
\* fix_iso_complete.py: the call returns its list; neither function has a
\* raise statement or an iteration counter.
ResolveChain ==
  /\ probe # <<>>
  /\ keys = <<>>
  /\ keys' = <<"get_all_parent_refs", "returned",
               IF code = "HIPAA" THEN get_all_parent_refs_hipaa(probe.a)
               ELSE get_all_parent_refs_iso(probe.a)>>
  /\ UNCHANGED <<nodes, code, hist, prev, created, parent_updates,
                 order_updates, probe>>

\* get_immediate_parent(probe.a) of fix_hipaa_parent_hierarchy.py.
HipaaImmediateParent ==
  /\ probe # <<>>
  /\ keys = <<>>
  /\ code = "HIPAA"
  /\ keys' = <<"get_immediate_parent", "returned",
               get_immediate_parent_hipaa(probe.a)>>
  /\ UNCHANGED <<nodes, code, hist, prev, created, parent_updates,
                 order_updates, probe>>

\* get_parent_ref_hipaa(probe.a) of fix_all_framework_parent_hierarchy.py.
FixAllParentRef ==
  /\ probe # <<>>
  /\ keys = <<>>
  /\ code = "HIPAA"
  /\ keys' = <<"get_parent_ref_hipaa", "returned",
               get_parent_ref_hipaa(probe.a)>>
  /\ UNCHANGED <<nodes, code, hist, prev, created, parent_updates,
                 order_updates, probe>>

\* The parent rules of fix_all_framework_parent_hierarchy.py (other than
\* get_parent_ref_hipaa), get_immediate_parent of fix_iso_complete.py and
\* get_parent_ref of fix_iso_parent_hierarchy.py, by name.
RuleNames ==
  { "get_parent_ref_nist_800_53", "get_parent_ref_nist_800_171_rev3",
    "get_parent_ref_nist_800_171_rev2", "get_parent_ref_cis_csc",
    "get_parent_ref_pci_dss", "get_parent_ref_gdpr", "get_parent_ref_soc2",
    "get_parent_ref_nist_csf_v1", "get_parent_ref_nist_pf",
    "get_parent_ref_cobit", "get_parent_ref_csa_ccm",
    "get_parent_ref_nydfs", "get_parent_ref_ccpa",
    "fix_iso_complete.get_immediate_parent",
    "fix_iso_parent_hierarchy.get_parent_ref" }

RuleResult(name, ref) ==
  CASE name = "get_parent_ref_nist_800_53" -> get_parent_ref_nist_800_53(ref)
    [] name = "get_parent_ref_nist_800_171_rev3" ->
         get_parent_ref_nist_800_171_rev3(ref)
    [] name = "get_parent_ref_nist_800_171_rev2" ->
         get_parent_ref_nist_800_171_rev2(ref)
    [] name = "get_parent_ref_cis_csc" -> get_parent_ref_cis_csc(ref)
    [] name = "get_parent_ref_pci_dss" -> get_parent_ref_pci_dss(ref)
    [] name = "get_parent_ref_gdpr" -> get_parent_ref_gdpr(ref)
    [] name = "get_parent_ref_soc2" -> get_parent_ref_soc2(ref)
    [] name = "get_parent_ref_nist_csf_v1" -> get_parent_ref_nist_csf_v1(ref)
    [] name = "get_parent_ref_nist_pf" -> get_parent_ref_nist_pf(ref)
    [] name = "get_parent_ref_cobit" -> get_parent_ref_cobit(ref)
    [] name = "get_parent_ref_csa_ccm" -> get_parent_ref_csa_ccm(ref)
    [] name = "get_parent_ref_nydfs" -> get_parent_ref_nydfs(ref)
    [] name = "get_parent_ref_ccpa" -> get_parent_ref_ccpa(ref)
    [] name = "fix_iso_complete.get_immediate_parent" ->
         get_immediate_parent_iso(ref)
    [] name = "fix_iso_parent_hierarchy.get_parent_ref" -> get_parent_ref(ref)

\* One of the rules of RuleNames applied to probe.a.
InferParent ==
  /\ probe # <<>>
  /\ keys = <<>>
  /\ \E name \in RuleNames :
       keys' = <<name, "returned", RuleResult(name, probe.a)>>
  /\ UNCHANGED <<nodes, code, hist, prev, created, parent_updates,
                 order_updates, probe>>

NextRules ==
  ResolveChain \/ HipaaImmediateParent \/ FixAllParentRef \/ InferParent

SpecRules == InitRules /\ [][NextRules]_vars

(***************************************************************************)
(* Loop specification: get_all_parent_refs, one iteration per step         *)
(***************************************************************************)
\* The rule the loop of the script named by code calls.
ChainRule(ref) ==
  IF code = "HIPAA" THEN get_immediate_parent_hipaa(ref)
  ELSE get_immediate_parent_iso(ref)

\* Mutation of parents.append(parent): the parent is put in front.
ChainAppend_in_front(parents, parent) == <<parent>> \o parents

\* parents.append(parent)
ChainAppend(parents, parent) == Append(parents, parent)

\* parents = []; current = ref_code
\* keys is <<function, "running" or "returned", parents, current>>.
ChainStart ==
  /\ probe # <<>>
  /\ keys = <<>>
  /\ keys' = <<"get_all_parent_refs", "running", <<>>, probe.a>>
  /\ UNCHANGED <<nodes, code, hist, prev, created, parent_updates,
                 order_updates, probe>>

\* One round of `while True` in which the rule finds a parent.
ChainIterate ==
  /\ keys # <<>>
  /\ keys[2] = "running"
  /\ \E parent \in {ChainRule(keys[4])} :
       /\ parent # NoRef
       /\ keys' = <<keys[1], "running", ChainAppend(keys[3], parent), parent>>
  /\ UNCHANGED <<nodes, code, hist, prev, created, parent_updates,
                 order_updates, probe>>

\* The round in which the rule returns None: break, return parents.
ChainReturn ==
  /\ keys # <<>>
  /\ keys[2] = "running"
  /\ ChainRule(keys[4]) = NoRef
  /\ keys' = <<keys[1], "returned", keys[3], keys[4]>>
  /\ UNCHANGED <<nodes, code, hist, prev, created, parent_updates,
                 order_updates, probe>>

NextLoop == ChainStart \/ ChainIterate \/ ChainReturn

SpecLoop == InitRules /\ [][NextLoop]_vars

(***************************************************************************)
(* update_nist_csf_hierarchy.py                                            *)
(***************************************************************************)
\* FUNCTIONS: the keys, in the order of the dict.
FUNCTIONS ==
  << <<"G", "V">>, <<"I", "D">>, <<"P", "R">>, <<"D", "E">>,
     <<"R", "S">>, <<"R", "C">> >>

\* CATEGORIES: the keys, in the order of the dict.
CATEGORIES ==
  << <<"G", "V", ".", "O", "C">>, <<"G", "V", ".", "R", "M">>,
     <<"G", "V", ".", "R", "R">>, <<"G", "V", ".", "P", "O">>,
     <<"G", "V", ".", "O", "V">>, <<"G", "V", ".", "S", "C">>,
     <<"I", "D", ".", "A", "M">>, <<"I", "D", ".", "R", "A">>,
     <<"I", "D", ".", "I", "M">>, <<"P", "R", ".", "A", "A">>,
     <<"P", "R", ".", "A", "T">>, <<"P", "R", ".", "D", "S">>,
     <<"P", "R", ".", "P", "S">>, <<"P", "R", ".", "I", "R">>,
     <<"D", "E", ".", "A", "E">>, <<"D", "E", ".", "C", "M">>,
     <<"R", "S", ".", "M", "A">>, <<"R", "S", ".", "A", "N">>,
     <<"R", "S", ".", "R", "P">>, <<"R", "S", ".", "M", "I">>,
     <<"R", "C", ".", "R", "P">>, <<"R", "C", ".", "C", "O">> >>

\* ord(func_code[0]) * 100
FunctionOrder(func_code) == Ord(func_code[1]) * 100

\* ord(cat_code.split('.')[1][0]) * 10 + ord(cat_code.split('.')[1][1])
\* (every key of CATEGORIES has two letters after the dot).
CategoryOrder(cat_code) == Ord(cat_code[4]) * 10 + Ord(cat_code[5])

\* The codes of list that control_map lacks, in the order of list.
MissingOf(list, ns, fw) ==
  SelectSeq(list, LAMBDA c : c \notin RefSet(ns, fw))

\* Step 1: one INSERT per missing function.
InsertFunctions(ns, fw) ==
  LET missing == MissingOf(FUNCTIONS, ns, fw) IN
  ns \o [k \in 1..Len(missing) |->
           [FreshRow(missing[k]) EXCEPT
              !.fw = fw, !.level = "function", !.is_group = "true",
              !.order = FunctionOrder(missing[k])]]

\* Step 2: one INSERT per missing category, under control_map.get(func_code).
InsertCategories(ns, fw) ==
  LET missing == MissingOf(CATEGORIES, ns, fw) IN
  ns \o [k \in 1..Len(missing) |->
           [FreshRow(missing[k]) EXCEPT
              !.fw = fw, !.level = "category", !.is_group = "true",
              !.parent = RefId(ns, fw, SubSeq(missing[k], 1, 2)),
              !.order = CategoryOrder(missing[k])]]

\* Step 3: the controls fetched at the start that match XX.YY-NN get their
\* category as parent, level 'control', the number as display_order.
UpdateCsfControls(ns, fw, controls) ==
  [i \in DOMAIN ns |->
     IF i \in controls /\ MatchControlLong(ns[i].ref)
     THEN [ns[i] EXCEPT
             !.parent = RefId(ns, fw, BeforeLastDash(ns[i].ref)),
             !.level = "control", !.is_group = "false",
             !.order = IntOf(SubSeq(ns[i].ref, LastPos(ns[i].ref, "-") + 1,
                                    Len(ns[i].ref)))]
     ELSE ns[i]]

\* Rows of NIST CSF 2.0 an initial table may hold.
CsfPresentUniverse ==
  << <<"G", "V">>, <<"R", "S">>, <<"R", "C">>, <<"G", "V", ".", "R", "M">>,
     <<"R", "S", ".", "R", "P">>, <<"R", "C", ".", "R", "P">>,
     <<"G", "V", ".", "R", "M", "-", "0", "1">>,
     <<"R", "S", ".", "R", "P", "-", "0", "2">> >>

\* Any selection of CsfPresentUniverse, as imported (no hierarchy fields).
InitCsfInsert ==
  /\ \E S \in SUBSET (1..Len(CsfPresentUniverse)) :
       \E idx \in {Ascending(S)} :
         nodes = <<[ForeignRow EXCEPT !.ref = <<"G", "V">>]>> \o
                   [i \in 1..Len(idx) |-> FreshRow(CsfPresentUniverse[idx[i]])]
  /\ code = "NIST-CSF-2.0"
  /\ probe = <<>>
  /\ keys = <<>>
  /\ NoRun

\* update_nist_csf_hierarchy(conn) on framework "F".
UpdateNistCsfHierarchy ==
  /\ code = "NIST-CSF-2.0"
  /\ Len(hist) < MaxRuns
  /\ \E n1 \in {InsertFunctions(nodes, "F")} :
     \E n2 \in {InsertCategories(n1, "F")} :
       /\ nodes' = Rows1(UpdateCsfControls(n2, "F", Rows(nodes, "F")))
       /\ created' = (Len(nodes) + 1)..Len(n2)
       /\ parent_updates' =
            {<<RefId(n2, "F", BeforeLastDash(nodes[i].ref)), i>> :
               i \in {j \in Rows(nodes, "F") : MatchControlLong(nodes[j].ref)}}
  /\ order_updates' = <<>>
  /\ hist' = Append(hist, "update_csf")
  /\ prev' = nodes
  /\ UNCHANGED <<code, probe, keys>>

NextCsfInsert == UpdateNistCsfHierarchy

SpecCsfInsert == InitCsfInsert /\ [][NextCsfInsert]_vars

\* The ordering specification: the key comparisons, the sequencer script
\* and the script whose last step is the sequencer.
NextOrder == KeyCompare \/ SeqHierarchy \/ FlatDisplayOrder \/ IsoComplete

SpecOrder == InitOrder /\ [][NextOrder]_vars


(***************************************************************************)
(* Vocabulary of the properties                                            *)
(***************************************************************************)
\* The script that ran last.
LastRun == IF hist = <<>> THEN "none" ELSE hist[Len(hist)]

\* The scripts whose last step is the hierarchy-aware sequencer.
SequencerRuns == {"seq", "iso_complete"}

\* The ids reached from row i by following parent_id at most fuel times.
RECURSIVE Ancestors(_, _, _)
Ancestors(ns, i, fuel) ==
  IF fuel = 0 \/ ns[i].parent = None THEN {}
  ELSE {ns[i].parent} \cup Ancestors(ns, ns[i].parent, fuel - 1)

\* c is a descendant of n: n is reached from c by following parent_id.
IsDescendant(ns, c, n) == n \in Ancestors(ns, c, Len(ns))

\* Following parent_id from row i reaches a row with parent_id = None.
RECURSIVE ReachesRoot(_, _, _)
ReachesRoot(ns, i, fuel) ==
  IF ns[i].parent = None THEN TRUE
  ELSE IF fuel = 0 THEN FALSE
  ELSE ReachesRoot(ns, ns[i].parent, fuel - 1)

\* The parent links of framework fw form a forest over its own rows.
Forest(ns, fw) ==
  \A i \in Rows(ns, fw) :
    /\ ns[i].parent # None => ns[i].parent \in Rows(ns, fw)
    /\ ReachesRoot(ns, i, Len(ns))

\* The rows the last sequencer run visited.
Visited == {order_updates[k][2] : k \in 1..Len(order_updates)}

SortKeyOf(i) == natural_sort_key(nodes[i].ref)

\* The table holds the rows 1, 1.1, 1.2, 1.10, 1.9 of NaturalOrderRows.
IsNaturalOrderTable ==
  /\ Len(nodes) = Len(NaturalOrderRows)
  /\ \A i \in DOMAIN nodes :
       /\ nodes[i].ref = NaturalOrderRows[i].ref
       /\ nodes[i].parent = NaturalOrderRows[i].parent

(***************************************************************************)
(* Display order (checked under SpecOrder)                                 *)
(***************************************************************************)
\* C1: pre-order invariant.  After the hierarchy-aware sequencer (the
\* fix_display_order_hierarchy script, or the last step of fix_iso_complete)
\* has run on a framework whose parent links form a forest, every node has
\* a smaller display_order than each of its descendants.
C1_PreOrder ==
  (LastRun \in SequencerRuns /\ Forest(nodes, "F")) =>
    \A n \in Rows(nodes, "F"), c \in Rows(nodes, "F") :
      IsDescendant(nodes, c, n) => nodes[n].order < nodes[c].order

\* A forest with a chain of three rows whose ids run against the chain.
C1_Witness ==
  /\ LastRun = "seq"
  /\ Forest(nodes, "F")
  /\ \E n \in Rows(nodes, "F"), c \in Rows(nodes, "F"),
        d \in Rows(nodes, "F") :
       /\ nodes[c].parent = n /\ nodes[d].parent = c
       /\ d < c /\ c < n
       /\ nodes[n].order < nodes[c].order
       /\ nodes[c].order < nodes[d].order

\* C2: after the sequencer has run on a forest, every node of the framework
\* has a display_order, the values are pairwise distinct, and they are
\* exactly 0..N-1, handed out in increasing visit order.
C2_DenseOrder ==
  (LastRun \in SequencerRuns /\ Forest(nodes, "F")) =>
    LET N == Cardinality(Rows(nodes, "F")) IN
    /\ Len(order_updates) = N
    /\ Visited = Rows(nodes, "F")
    /\ \A k \in 1..N :
         /\ order_updates[k][1] = k - 1
         /\ nodes[order_updates[k][2]].order = k - 1
    /\ {nodes[i].order : i \in Rows(nodes, "F")} = 0..(N - 1)
    /\ \A i \in Rows(nodes, "F"), j \in Rows(nodes, "F") :
         i # j => nodes[i].order # nodes[j].order

\* fix_iso_complete created a group and numbered a forest of three rows,
\* none of which had a display_order before.
C2_Witness ==
  /\ LastRun = "iso_complete"
  /\ Forest(nodes, "F")
  /\ created # {}
  /\ Cardinality(Rows(nodes, "F")) = 3
  /\ \A i \in Rows(prev, "F") : prev[i].order = NullOrder
  /\ {nodes[i].order : i \in Rows(nodes, "F")} = 0..2

\* C3: roots, and the children of every visited node, are visited in
\* ascending natural_sort_key order, a whole subtree before the next
\* sibling: for visited siblings (or roots) a and b with
\* natural_sort_key(a) < natural_sort_key(b), a and every descendant of a
\* get a smaller display_order than b.
C3_SiblingOrder ==
  LastRun \in SequencerRuns =>
    \A a \in Visited, b \in Visited :
      (/\ nodes[a].parent = nodes[b].parent
       /\ KeyLess(SortKeyOf(a), SortKeyOf(b))) =>
        /\ nodes[a].order < nodes[b].order
        /\ \A c \in Rows(nodes, "F") :
             IsDescendant(nodes, c, a) => nodes[c].order < nodes[b].order

\* Two sibling roots, the one with the smaller key having the larger id
\* and a child, numbered before the other root.
C3_Witness ==
  /\ LastRun = "seq"
  /\ \E a \in Visited, b \in Visited, c \in Visited :
       /\ nodes[a].parent = None /\ nodes[b].parent = None
       /\ KeyLess(SortKeyOf(a), SortKeyOf(b))
       /\ b < a
       /\ nodes[c].parent = a
       /\ nodes[a].order < nodes[c].order
       /\ nodes[c].order < nodes[b].order

\* C4: natural sort.  Two ref_codes that differ in one maximal digit run
\* only compare by the integer values of that run, whatever its digit
\* count; and the siblings 1.1, 1.2, 1.10, 1.9 under 1 are numbered in the
\* order 1, 1.1, 1.2, 1.9, 1.10.
C4_NaturalSort ==
  /\ (keys # <<>> /\ probe.kind = "run") =>
       (KeyLess(keys[1], keys[2]) <=> probe.va < probe.vb)
  /\ (LastRun = "seq" /\ IsNaturalOrderTable) =>
       /\ nodes[2].order = 0 /\ nodes[3].order = 1 /\ nodes[4].order = 2
       /\ nodes[6].order = 3 /\ nodes[5].order = 4

\* A code with the smaller run value and more digits has the smaller key.
C4_Witness ==
  /\ keys # <<>>
  /\ probe.kind = "run"
  /\ probe.va < probe.vb
  /\ Len(probe.a) > Len(probe.b)
  /\ KeyLess(keys[1], keys[2])

\* C5: a ref_code of fewer than ten components has a smaller key than the
\* codes obtained by appending separator and segment text to it ('5' and
\* '5.1', 'AC-16' and 'AC-16(1)').
C5_ShorterFirst ==
  (keys # <<>> /\ probe.kind = "ext") => KeyLess(keys[1], keys[2])

(***************************************************************************)
(* Hierarchy engine (checked under Spec)                                   *)
(***************************************************************************)
\* The scripts that assign parent_id.
EngineRuns == {"iso_complete", "hipaa", "fix_all", "iso_parent"}

HasChildIn(ns, fw, n) == \E m \in Rows(ns, fw) : ns[m].parent = n

\* C6: after fix_iso_complete's process_framework or fix_hipaa's main has
\* processed a framework, is_group of each of its nodes is true exactly
\* when some node of the same framework has it as parent_id, whatever the
\* is_group values were before.
C6_IsGroup ==
  LastRun \in {"iso_complete", "hipaa"} =>
    \A n \in Rows(nodes, "F") :
      nodes[n].is_group = "true" <=> HasChildIn(nodes, "F", n)

\* A row that was marked a group and whose only child is a row of another
\* framework is a leaf after the run, next to a created group with a child.
C6_Witness ==
  /\ LastRun \in {"iso_complete", "hipaa"}
  /\ nodes[1].parent = 2
  /\ ~HasChildIn(nodes, "F", 2)
  /\ prev[2].is_group = "true"
  /\ nodes[2].is_group = "false"
  /\ \E g \in created : HasChildIn(nodes, "F", g) /\ nodes[g].is_group = "true"

\* C7: a second run of the engine (fix_iso_complete's process_framework,
\* fix_all_framework_parent_hierarchy's main) on the table its first run
\* left creates no node, emits no parent update and leaves parent_id,
\* hierarchy_level, is_group and display_order of every node as they were.
C7_Idempotent ==
  (Len(hist) = 2 /\ hist[1] = hist[2]
     /\ hist[1] \in {"iso_complete", "fix_all"}) =>
    /\ created = {}
    /\ parent_updates = {}
    /\ Len(nodes) = Len(prev)
    /\ \A i \in DOMAIN nodes :
         /\ nodes[i].parent = prev[i].parent
         /\ nodes[i].level = prev[i].level
         /\ nodes[i].is_group = prev[i].is_group
         /\ nodes[i].order = prev[i].order

\* C8: every parent_id the engine writes while it processes framework F is
\* the id of a row of F, so each row the engine gave a parent points to an
\* existing row of its own framework.
C8_ParentInFramework ==
  LastRun \in EngineRuns =>
    \A u \in parent_updates :
      /\ u[1] \in Rows(nodes, "F")
      /\ u[2] \in Rows(nodes, "F")
      /\ nodes[u[2]].parent = u[1]

\* A row is given a created group as parent while a row of the other
\* framework carries the same ref_code as that group.
C8_Witness ==
  /\ LastRun \in EngineRuns
  /\ \E u \in parent_updates :
       /\ u[1] \in created
       /\ nodes[u[1]].ref = nodes[1].ref
       /\ nodes[u[2]].parent = u[1]

\* C9: after the engine has processed a framework, whatever parent_id
\* values its rows had before, following parent_id from any of its nodes
\* reaches a node with parent_id = None within a bounded number of hops.
C9_NoCycles ==
  LastRun \in EngineRuns =>
    \A i \in Rows(nodes, "F") : ReachesRoot(nodes, i, Len(nodes))

\* C10: HIPAA deep nesting.  For every node with a syntactic parent, a node
\* with the parent's ref_code exists after fix_hipaa's main and is the
\* node's parent_id; run on a framework that holds 164.306(b)(2)(i) only,
\* main creates exactly the groups 164.306, 164.306(b) and 164.306(b)(2)
\* and links 164.306(b)(2)(i) -> 164.306(b)(2) -> 164.306(b) -> 164.306,
\* the last one a root.
C10_HipaaNesting ==
  LastRun = "hipaa" =>
    /\ \A i \in Rows(nodes, "F") :
         LET parent_ref == get_immediate_parent_hipaa(nodes[i].ref) IN
         parent_ref # NoRef =>
           /\ \E p \in Rows(nodes, "F") : nodes[p].ref = parent_ref
           /\ nodes[nodes[i].parent].ref = parent_ref
           /\ nodes[nodes[i].parent].fw = "F"
    /\ (Len(hist) = 1 /\ Rows(prev, "F") = {2}
          /\ prev[2].ref = HipaaUniverse[4]) =>
         /\ Cardinality(created) = 3
         /\ {nodes[g].ref : g \in created}
              = {HipaaUniverse[1], HipaaUniverse[2], HipaaUniverse[3]}
         /\ \A g \in created : nodes[g].fw = "F" /\ nodes[g].is_group = "true"
         /\ nodes[nodes[2].parent].ref = HipaaUniverse[3]
         /\ nodes[nodes[nodes[2].parent].parent].ref = HipaaUniverse[2]
         /\ nodes[nodes[nodes[nodes[2].parent].parent].parent].ref
              = HipaaUniverse[1]
         /\ nodes[nodes[nodes[nodes[2].parent].parent].parent].parent = None

\* The framework held 164.306(b)(2)(i) only, its parent_id pointing at the
\* other framework's 164.306; three groups were created.
C10_Witness ==
  /\ hist = <<"hipaa">>
  /\ Rows(prev, "F") = {2}
  /\ prev[2].ref = HipaaUniverse[4]
  /\ prev[2].parent = 1
  /\ nodes[1].ref = HipaaUniverse[1]
  /\ Cardinality(created) = 3
  /\ nodes[2].parent \in created

\* The row of framework fw that carries ref_code ref, None when absent
\* (used by the properties only).
RowWithRef(ns, fw, ref) ==
  IF \E i \in Rows(ns, fw) : ns[i].ref = ref
  THEN CHOOSE i \in Rows(ns, fw) : ns[i].ref = ref
  ELSE None

\* s ends in a parenthesised number: "(" digits ")".
EndsInNumParen(s) == IsDigits(ParenBody(s))

\* The base form XX-N: two capitals, a dash, digits.
IsFamilyControl(s) ==
  /\ Len(s) >= 4
  /\ s[1] \in Uppers /\ s[2] \in Uppers /\ s[3] = "-"
  /\ \A k \in 4..Len(s) : s[k] \in Digits

\* C11: enhancement suffix.  After fix_all_framework_parent_hierarchy has
\* processed a NIST 800-53 style framework, every node XX-N(M) whose base
\* XX-N is present has the base as parent_id and the base is a group; a
\* code whose remainder after stripping (M) is not of the form XX-N gets no
\* inferred parent (its parent_id is not written).
C11_Enhancement ==
  (LastRun = "fix_all" /\ code = "NIST-800-53") =>
    \A i \in Rows(nodes, "F") :
      EndsInNumParen(nodes[i].ref) =>
        LET base == BeforeParen(nodes[i].ref) IN
        IF IsFamilyControl(base)
        THEN RowWithRef(nodes, "F", base) # None =>
               /\ nodes[i].parent = RowWithRef(nodes, "F", base)
               /\ nodes[nodes[i].parent].is_group = "true"
        ELSE /\ \A u \in parent_updates : u[2] # i
             /\ nodes[i].parent = prev[i].parent

\* AC-16(1) and AC-16(2) both point to AC-16, which was a leaf before the
\* run and is a group after it, while a row of the other framework carries
\* the ref_code AC-16 too.
C11_Witness ==
  /\ hist = <<"fix_all">>
  /\ code = "NIST-800-53"
  /\ nodes[1].ref = NistUniverse[1]
  /\ \E b \in Rows(nodes, "F"), i \in Rows(nodes, "F"),
        j \in Rows(nodes, "F") :
       /\ nodes[b].ref = NistUniverse[1]
       /\ nodes[i].ref = NistUniverse[2]
       /\ nodes[j].ref = NistUniverse[3]
       /\ nodes[i].parent = b /\ nodes[j].parent = b
       /\ prev[b].is_group = "false"
       /\ nodes[b].is_group = "true"

(***************************************************************************)
(* NIST-CSF (checked under SpecCsf)                                        *)
(***************************************************************************)
\* The scripts that map the parents of a NIST-CSF framework.
CsfMappers == {"auto_map", "fix_all"}

CsfGV    == <<"G", "V">>
CsfGVRM  == <<"G", "V", ".", "R", "M">>
CsfGVRM1 == <<"G", "V", ".", "R", "M", "-", "0", "1">>
CsfGVRM2 == <<"G", "V", ".", "R", "M", "-", "0", "2">>

\* Framework "F" holds exactly GV, GV.RM, GV.RM-01 and GV.RM-02.
IsCsfTable ==
  {nodes[i].ref : i \in Rows(nodes, "F")} = {CsfGV, CsfGVRM, CsfGVRM1, CsfGVRM2}

\* C12: CSF function/category.  For the nodes GV, GV.RM, GV.RM-01 and
\* GV.RM-02 the parent mapper sets GV.RM's parent_id to GV and that of
\* GV.RM-01 and GV.RM-02 to GV.RM, GV stays a root, and the sequencer run
\* after it numbers them GV, GV.RM, GV.RM-01, GV.RM-02.
C12_CsfHierarchy ==
  /\ (LastRun \in CsfMappers /\ IsCsfTable) =>
       /\ nodes[RowWithRef(nodes, "F", CsfGVRM)].parent
            = RowWithRef(nodes, "F", CsfGV)
       /\ nodes[RowWithRef(nodes, "F", CsfGVRM1)].parent
            = RowWithRef(nodes, "F", CsfGVRM)
       /\ nodes[RowWithRef(nodes, "F", CsfGVRM2)].parent
            = RowWithRef(nodes, "F", CsfGVRM)
       /\ (\/ RowWithRef(nodes, "F", CsfGV) \in created
           \/ prev[RowWithRef(nodes, "F", CsfGV)].parent = None) =>
            nodes[RowWithRef(nodes, "F", CsfGV)].parent = None
  /\ (Len(hist) = 2 /\ hist[1] \in CsfMappers /\ hist[2] = "seq"
        /\ IsCsfTable /\ nodes[RowWithRef(nodes, "F", CsfGV)].parent = None) =>
       /\ nodes[RowWithRef(nodes, "F", CsfGV)].order = 0
       /\ nodes[RowWithRef(nodes, "F", CsfGVRM)].order = 1
       /\ nodes[RowWithRef(nodes, "F", CsfGVRM1)].order = 2
       /\ nodes[RowWithRef(nodes, "F", CsfGVRM2)].order = 3

\* The four nodes, mapped by fix_all and then numbered; GV.RM-02 has the
\* smallest id and the largest display_order.
C12_Witness ==
  /\ hist = <<"fix_all", "seq">>
  /\ IsCsfTable
  /\ created = {}
  /\ nodes[2].ref = CsfGVRM2
  /\ nodes[2].order = 3
  /\ nodes[RowWithRef(nodes, "F", CsfGV)].order = 0
  /\ nodes[2].parent = RowWithRef(nodes, "F", CsfGVRM)

(***************************************************************************)
(* Unresolved and unmatched codes (checked under Spec)                     *)
(***************************************************************************)
\* The parent rule the last script applied to the rows of framework "F".
LastRule(ref) ==
  CASE LastRun = "iso_complete" -> get_immediate_parent_iso(ref)
    [] LastRun = "hipaa"        -> get_immediate_parent_hipaa(ref)
    [] LastRun = "fix_all"      -> FixAllRule(code, ref)
    [] LastRun = "iso_parent"   -> get_parent_ref(ref)

\* C13: soft failure on an unresolved parent.  When the inferred parent
\* ref_code of a node has no node in the framework, even after synthesis,
\* the run completes and the node ends it with parent_id = None, whatever
\* parent_id it had before.
C13_UnresolvedIsRoot ==
  LastRun \in EngineRuns =>
    \A i \in Rows(nodes, "F") :
      (/\ LastRule(nodes[i].ref) # NoRef
       /\ RowWithRef(nodes, "F", LastRule(nodes[i].ref)) = None) =>
        nodes[i].parent = None

\* C14: pattern mismatch is fail-open.  A node for whose ref_code the
\* framework's parent rule returns None is a root after the run: its
\* parent_id is None.
C14_UnmatchedIsRoot ==
  LastRun \in EngineRuns =>
    \A i \in Rows(nodes, "F") :
      LastRule(nodes[i].ref) = NoRef => nodes[i].parent = None

(***************************************************************************)
(* Atomicity (checked under SpecAtomic)                                    *)
(***************************************************************************)
FailedRuns == {"iso_complete_failed", "fix_all_failed"}

\* C15: per-framework atomicity.  If the processing of a framework fails at
\* any step (group synthesis, parent assignment, is_group recomputation,
\* display_order assignment), none of its hierarchy updates is persisted:
\* the table is the table from before the run.
C15_AllOrNothing ==
  LastRun \in FailedRuns => nodes = prev

(***************************************************************************)
(* Frame of fix_all_framework_parent_hierarchy (checked under Spec)        *)
(***************************************************************************)
\* C16: a complete run of fix_all_framework_parent_hierarchy main deletes no
\* node and changes no field other than parent_id of any node that existed
\* before the run.
C16_OnlyParentId ==
  LastRun = "fix_all" =>
    /\ Len(nodes) >= Len(prev)
    /\ \A i \in DOMAIN prev :
         [nodes[i] EXCEPT !.parent = prev[i].parent] = prev[i]

(***************************************************************************)
(* The chain resolver's iteration cap (checked under SpecRules)            *)
(***************************************************************************)
\* C17: the ancestor chain resolver caps its iterations at 10.  For a
\* ref_code whose chain needs more applications of the parent rule than
\* that, get_all_parent_refs raises an inference error instead of returning
\* a chain: a returned chain has at most 10 elements.
C17_ChainCapped ==
  (keys # <<>> /\ keys[1] = "get_all_parent_refs") =>
    (keys[2] = "returned" => Len(keys[3]) <= 10)

(***************************************************************************)
(* Group synthesis (checked under Spec)                                    *)
(***************************************************************************)
\* The runs that synthesize groups for framework "F".
SynthesizerRan ==
  \/ LastRun \in {"iso_complete", "hipaa"}
  \/ LastRun = "fix_all" /\ FixAllNeedsGroups(code)

\* The ancestors of a ref_code under the rule of the last script.
RECURSIVE RuleChain(_)
RuleChain(ref) ==
  IF LastRule(ref) = NoRef THEN {}
  ELSE {LastRule(ref)} \cup RuleChain(LastRule(ref))

\* C18: the group synthesizer creates exactly one node for each ancestor
\* ref_code that some node's ancestor chain implies and the framework lacks,
\* and none for a ref_code already present; run again on the resulting table
\* it creates no node; no two nodes of a framework share a ref_code.
C18_GroupSynthesis ==
  /\ SynthesizerRan =>
       LET present == RefSet(prev, "F")
           implied == UNION {RuleChain(prev[i].ref) : i \in Rows(prev, "F")}
       IN  /\ \A r \in implied \ present :
                Cardinality({i \in created : nodes[i].fw = "F" /\
                                             nodes[i].ref = r}) = 1
           /\ \A i \in created : nodes[i].ref \notin present
           /\ (Len(hist) >= 2 /\ hist[Len(hist) - 1] = LastRun) =>
                created = {}
  /\ \A i, j \in Rows(nodes, "F") :
       nodes[i].ref = nodes[j].ref => i = j

\* A second fix_iso_complete run, creating nothing, on a table to which the
\* first run added at least two groups.
C18_Witness ==
  /\ hist = <<"iso_complete", "iso_complete">>
  /\ created = {}
  /\ Len(nodes) >= MaxNodes + 3
  /\ Len(prev) = Len(nodes)

(***************************************************************************)
(* is_group after fix_all's set_hierarchy_levels (checked under Spec)      *)
(***************************************************************************)
\* C19: set_hierarchy_levels of fix_all_framework_parent_hierarchy re-derives
\* is_group from the current parent links: after it has run, every node with
\* at least one child has is_group = true and every node with no child has
\* is_group = false, whatever is_group and hierarchy_level were before.
C19_IsGroupRederived ==
  LastRun = "fix_all" =>
    \A i \in DOMAIN nodes :
      nodes[i].is_group =
        IF \E j \in DOMAIN nodes : nodes[j].parent = i THEN "true"
        ELSE "false"

(***************************************************************************)
(* The HIPAA parenthetical-chain rule (checked under SpecRules)            *)
(***************************************************************************)
\* The code ends in a parenthesised group that is numeric, a single
\* uppercase letter, a lowercase roman numeral or a single lowercase letter.
EndsInGroup(s) ==
  \/ MatchAnyNumParen(s)
  \/ MatchAnyUpperParen(s)
  \/ MatchAnyRomanParen(s)
  \/ MatchAnyLowerParen(s)

\* C20: parenthetical-chain rule.  For every HIPAA ref_code that ends in a
\* numeric, single-uppercase, lowercase-roman or single-lowercase group the
\* rule returns the code less exactly that trailing group, so that
\* 164.306(d)(3)(ii)(B)(2) resolves to the chain 164.306(d)(3)(ii)(B),
\* 164.306(d)(3)(ii), 164.306(d)(3), 164.306(d), 164.306.
C20_StripOneGroup ==
  /\ (/\ keys # <<>>
      /\ keys[1] \in {"get_immediate_parent", "get_parent_ref_hipaa"}
      /\ EndsInGroup(probe.a)) =>
       keys[3] = BeforeParen(probe.a)
  /\ (/\ keys # <<>>
      /\ keys[1] = "get_all_parent_refs"
      /\ code = "HIPAA"
      /\ probe.a = HipaaDeepCode) =>
       keys[3] = << HipaaSection \o <<"(", "d", ")", "(", "3", ")",
                                      "(", "i", "i", ")", "(", "B", ")">>,
                    HipaaSection \o <<"(", "d", ")", "(", "3", ")",
                                      "(", "i", "i", ")">>,
                    HipaaSection \o <<"(", "d", ")", "(", "3", ")">>,
                    HipaaSection \o <<"(", "d", ")">>,
                    HipaaSection >>

(***************************************************************************)
(* The dotted-decimal rules (checked under SpecRules)                      *)
(***************************************************************************)
DottedRules ==
  { "get_parent_ref_pci_dss", "get_parent_ref_nist_800_171_rev2",
    "fix_iso_complete.get_immediate_parent" }

\* C21: dotted-decimal rule.  For every ref_code of k >= 3 dot-separated
\* numeric segments, each dotted-decimal parent rule returns the code with
\* its rightmost .N segment stripped (1.2.1 -> 1.2, 10.4.1.1 -> 10.4.1).
C21_StripLastSegment ==
  (/\ keys # <<>>
   /\ keys[1] \in DottedRules
   /\ NumSegs(probe.a) >= 3) =>
    keys[3] = BeforeLastDot(probe.a)

(***************************************************************************)
(* The ancestor chain (checked under SpecLoop)                             *)
(***************************************************************************)
\* The code before element i of the list of parents.
ChainBefore(i) == IF i = 1 THEN probe.a ELSE keys[3][i - 1]

\* C22: get_all_parent_refs terminates for every ref_code and returns the
\* ancestors from the immediate parent to the ultimate root: element 0 is
\* rule(ref_code), element i+1 is rule(element i), rule(last element) is None.
\* Termination is stated by its variant: every element is strictly shorter
\* than the one before and current is the last element, so a call on
\* ref_code leaves the loop after at most Len(ref_code) rounds.
C22_ChainToRoot ==
  keys # <<>> =>
    /\ \A i \in 1..Len(keys[3]) :
         /\ keys[3][i] = ChainRule(ChainBefore(i))
         /\ Len(keys[3][i]) < Len(ChainBefore(i))
    /\ keys[4] = ChainBefore(Len(keys[3]) + 1)
    /\ keys[2] = "returned" => ChainRule(keys[4]) = NoRef

\* A call that has returned a chain of at least three ancestors.
C22_Witness ==
  /\ keys # <<>>
  /\ keys[2] = "returned"
  /\ Len(keys[3]) >= 3

(***************************************************************************)
(* Synthesis before parent assignment (checked under Spec)                 *)
(***************************************************************************)
\* C23: step ordering within one framework.  Group synthesis completes
\* before any parent link is computed, and every parent lookup uses a map
\* that holds all nodes synthesized in this run: a node whose inferred
\* parent is a group created in this run is linked to that group by this
\* run's parent updates.
C23_SynthesisFirst ==
  SynthesizerRan =>
    \A i \in Rows(nodes, "F") :
      LET pid == RowWithRef(nodes, "F", LastRule(nodes[i].ref)) IN
      (LastRule(nodes[i].ref) # NoRef /\ pid \in created) =>
        /\ nodes[i].parent = pid
        /\ <<pid, i>> \in parent_updates

\* A run that created a group and linked both an original node and another
\* created group to groups of this run.
C23_Witness ==
  /\ SynthesizerRan
  /\ \E i \in Rows(nodes, "F") \ created : nodes[i].parent \in created
  /\ \E g \in created : nodes[g].parent \in created

(***************************************************************************)
(* Clause parents in fix_iso_parent_hierarchy (checked under Spec)         *)
(***************************************************************************)
\* C24: in fix_iso_parent_hierarchy a two-segment code X.Y gets clause X as
\* its parent whenever a node with ref_code X exists in the framework, and
\* stays a root otherwise.
C24_ClauseParent ==
  LastRun = "iso_parent" =>
    \A i \in Rows(nodes, "F") :
      NumSegs(nodes[i].ref) = 2 =>
        nodes[i].parent = RowWithRef(nodes, "F", BeforeLastDot(nodes[i].ref))

(***************************************************************************)
(* display_order of the inserted CSF 2.0 groups (checked under             *)
(* SpecCsfInsert)                                                          *)
(***************************************************************************)
\* C25: among the function and category nodes that update_nist_csf_hierarchy
\* inserts, display_order values are pairwise distinct, and every inserted
\* category has a larger display_order than its parent function.
C25_InsertedOrders ==
  LastRun = "update_csf" =>
    /\ \A i, j \in created : nodes[i].order = nodes[j].order => i = j
    /\ \A c \in created :
         (nodes[c].level = "category" /\ nodes[c].parent # None) =>
           nodes[c].order > nodes[nodes[c].parent].order

(***************************************************************************)
(* The rules return prefixes (checked under SpecRules)                     *)
(***************************************************************************)
\* The calls of one parent rule, as opposed to a call of get_all_parent_refs.
RuleReturned ==
  /\ keys # <<>>
  /\ keys[1] # "get_all_parent_refs"

\* p is a non-empty prefix of s and shorter than s.
StrictPrefix(p, s) ==
  /\ 0 < Len(p)
  /\ Len(p) < Len(s)
  /\ p = SubSeq(s, 1, Len(p))

\* C26: every parent-inference rule returns either None or a non-empty
\* strict proper prefix of its input ref_code, so applying a rule again and
\* again yields strictly shorter strings and no ref_code is its own
\* ancestor.
C26_ParentIsPrefix ==
  RuleReturned => (keys[3] = NoRef \/ StrictPrefix(keys[3], probe.a))

\* A SOC 2 point of focus whose rule returned its criterion.
C26_Witness ==
  /\ RuleReturned
  /\ keys[1] = "get_parent_ref_soc2"
  /\ keys[3] # NoRef
  /\ StrictPrefix(keys[3], probe.a)

(***************************************************************************)
(* The two HIPAA rules (checked under SpecRules)                           *)
(***************************************************************************)
\* A branch of get_parent_ref_hipaa before the "(letter)(digit)" branch
\* matches ref.
EarlierBranchMatches(ref) ==
  MatchAnyNumParen(ref) \/ MatchAnyUpperParen(ref) \/ MatchAnyRomanParen(ref)

\* C27: the two HIPAA parent rules are equivalent.  For every ref_code,
\* get_parent_ref_hipaa of fix_all_framework_parent_hierarchy.py and
\* get_immediate_parent of fix_hipaa_parent_hierarchy.py return the same
\* result: whenever the extra "(letter)(digit)" branch of
\* get_parent_ref_hipaa matches, an earlier branch has already returned.
C27_HipaaRulesAgree ==
  /\ (keys # <<>> /\ keys[1] = "get_parent_ref_hipaa") =>
       /\ keys[3] = get_immediate_parent_hipaa(probe.a)
       /\ MatchLowerParenNumParen(probe.a) => EarlierBranchMatches(probe.a)
  /\ (keys # <<>> /\ keys[1] = "get_immediate_parent") =>
       keys[3] = get_parent_ref_hipaa(probe.a)

\* get_parent_ref_hipaa returned the parent of a code that ends in
\* "(letter)(digit)".
C27_Witness ==
  /\ keys # <<>>
  /\ keys[1] = "get_parent_ref_hipaa"
  /\ MatchLowerParenNumParen(probe.a)
  /\ keys[3] = BeforeParen(probe.a)

(***************************************************************************)
(* The sequencer on arbitrary parent links (checked under SpecOrder)       *)
(***************************************************************************)
\* C28: for every state of a framework's parent_id values (links left over
\* from earlier runs, links to ids outside the framework, cycles) the
\* hierarchy-aware sequencer terminates and assigns a display_order to
\* every node of the framework: the number of assignments equals the number
\* of nodes.
C28_EveryNodeAssigned ==
  LastRun \in SequencerRuns =>
    /\ Len(order_updates) = Cardinality(Rows(nodes, "F"))
    /\ Visited = Rows(nodes, "F")

(***************************************************************************)
(* Load order (checked under SpecOrder)                                    *)
(***************************************************************************)
\* C29: determinism with respect to load order.  For a fixed set of nodes
\* and parent links of a framework, the display_order the sequencer (the
\* hierarchy-aware one and the flat one) assigns to each node is the same
\* for every order in which the load query returns the nodes, also when
\* two sibling ref_codes differ only in letter case or in the leading zeros
\* of a digit run: the run's update list is the one every load order of the
\* table before the run gives.
C29_LoadOrderIndependent ==
  /\ LastRun = "seq" =>
       \A controls \in LoadOrders(Rows(prev, "F")) :
         SequencerUpdates(prev, controls) = order_updates
  /\ LastRun = "flat" =>
       \A controls \in LoadOrders(Rows(prev, "F")) :
         FlatUpdates(prev, controls) = order_updates

(***************************************************************************)
(* The groups of create_domain_groups (checked under SpecGroups)           *)
(***************************************************************************)
\* C30: for every framework configured with needs_groups in
\* fix_all_framework_parent_hierarchy, every group node created by
\* create_domain_groups is, at the end of process_framework, the parent_id
\* of at least one node of that framework: no synthesized group is left
\* childless while marked is_group = true.
C30_GroupsHaveChildren ==
  (LastRun = "fix_all" /\ FixAllNeedsGroups(code)) =>
    \A g \in created :
      /\ nodes[g].is_group = "true"
      /\ g \in ParentIdsIn(nodes, "F")

=============================================================================
